---- MODULE Spec2Model ----
(***************************************************************************)
(* TimestampController: a Merkle commitment over data leaves, anchored as  *)
(* a hint in the ERC-7506 trusted hint registry and verified against the   *)
(* registry's HintValueChanged events and the anchoring block's time.      *)
(*                                                                         *)
(* The registry contract, the chain client and the Merkle tree library are *)
(* collaborators of the controller.  Hashes are symbolic (collision free): *)
(* a leaf hash is the tagged pair of leaf value and encoding, an inner     *)
(* hash is the tagged unordered pair of its children (the library hashes   *)
(* the sorted pair, so the hash is commutative).                           *)
(***************************************************************************)
EXTENDS Integers, Sequences, FiniteSets, TLC

\* ------------------------------------------------------------- bounds
\* Largest number of leaves a tree generation holds; leaves are data1..dataN.
MaxLeaves == 2
\* Largest number of blocks (one HintValueChanged event each) on the chain.
MaxBlocks == 2
\* Largest maxTimeDifference a caller passes.
MaxDiff == 1

\* ------------------------------------------------------ program constants
\* Date.getTime() counts milliseconds; block timestamps count seconds.
MsPerSecond == 1000
\* 30 days in seconds, the default the documentation of verifyProof names
\* for maxTimeDifference.
ThirtyDays == 2592000

CONFIRMATION_VALUE == "0x1000000000000000000000000000000000000000000000000000000000000000"
ZERO_VALUE == "0x0000000000000000000000000000000000000000000000000000000000000000"

ROOT_HASH_EXPIRED == "root_hash_expired"
ROOT_HASH_NOT_FOUND == "root_hash_not_found"
MERKLE_PROOF_INVALID == "merkle_proof_invalid"

\* Error messages of TimestampControllerError, by their leading words.
ErrNoProvider == "A provider must be available"
ErrCreateTree == "Failed to create merkle tree"
ErrNoRootHash == "No root hash available"
ErrAnchor == "Failed to anchor root hash"
ErrBlockTimestamp == "Failed to get block timestamp"
ErrNoTreeProof == "No merkle tree available to generate proof"
ErrNoTreeProofs == "No merkle tree available to generate proofs"
ErrNoProofForLeaf(index) == "Failed to get proof for leaf at index " \o ToString(index)
\* The tree library's own failures: of a leaf lookup, of a tree without
\* leaves, and the ABI coder's for a leaf whose fields do not match the types.
ErrNoLeaves == "Expected non-zero number of leaves"
ErrLengthMismatch == "types/values length mismatch"
ErrLeafNotInTree == "Leaf is not in tree"
\* addLeaves without a tree.
ErrAddLeaves == "CommitmentError"
\* A rejection of an external read, propagated unchanged.
ErrExternal == "external call rejected"

\* ------------------------------------------------------------- inputs
\* A leafEncoding is the list of the types of a leaf's fields.
Encodings == {"string", "bytes32", "address,uint256"}
DefaultLeafEncoding == "string"
\* The number of fields of a leaf under an encoding.
Arity(encoding) == IF encoding = "address,uint256" THEN 2 ELSE 1
\* data1 .. dataN: the first field of leaf n is n, and a value is well formed
\* under every type
LeafValues == 1..MaxLeaves
\* The value of a field of the n-th leaf: "dataN".
Field(n) == <<"data", n>>
\* The n-th leaf as a tuple of fields: ["dataN"], or [addressN, amountN].
LeafOf(n, encoding) ==
  IF Arity(encoding) = 2 THEN <<Field(n), Field(n)>> ELSE <<Field(n)>>
Undefined == <<"undefined">>
\* The empty string given as a root hash.
EmptyString == <<"">>

\* --------------------------------------------------- Merkle tree library
\* standardLeafHash(value, types)
StandardLeafHash(leaf, encoding) == <<"leaf", leaf, encoding>>

\* hashPair(a, b): the hash of the sorted pair
HashPair(a, b) == <<"node", {a, b}>>

\* compareBytes on leaf hashes: a fixed total order of the digests
HashLess(a, b) == a[2][1][2] < b[2][1][2]

\* makeMerkleTree(leaves): the array form of the tree, index 0 shifted to 1
MakeMerkleTree(leaves) ==
  LET n == Len(leaves)
      size == 2 * n - 1
      t[i \in 0..(size - 1)] ==
        IF i >= size - n THEN leaves[size - i]
        ELSE HashPair(t[2 * i + 1], t[2 * i + 2])
  IN  [k \in 1..size |-> t[k - 1]]

\* A leaf the ABI coder cannot encode under the types: it has not one value
\* per type.
Malformed(leaf, leafEncoding) == Len(leaf) # Arity(leafEncoding)

\* StandardMerkleTree.of(values, leafEncoding) throws when hashing a leaf
\* throws, and on an empty list
TreeOfThrows(values, leafEncoding) ==
  \/ \E i \in 1..Len(values) : Malformed(values[i], leafEncoding)
  \/ Len(values) = 0

\* The Error it throws: the leaves are hashed before the tree is made.
TreeOfError(values, leafEncoding) ==
  IF \E i \in 1..Len(values) : Malformed(values[i], leafEncoding)
  THEN [isError |-> TRUE, message |-> ErrLengthMismatch,
        text |-> "Error: types/values length mismatch"]
  ELSE [isError |-> TRUE, message |-> ErrNoLeaves,
        text |-> "Error: Expected non-zero number of leaves"]

StandardMerkleTreeOf(values, leafEncoding) ==
  LET hashes == [i \in 1..Len(values) |-> StandardLeafHash(values[i], leafEncoding)]
      sorted == SortSeq(hashes, HashLess)
  IN  [values |-> values, leafEncoding |-> leafEncoding, tree |-> MakeMerkleTree(sorted)]

NoTree == [values |-> <<>>, leafEncoding |-> "", tree |-> <<>>]

TreeRoot(mt) == mt.tree[1]

\* The 0-based tree index of the leaf with this hash (the last one, if repeated).
TreeIndexOf(mt, hash) ==
  CHOOSE i \in 0..(Len(mt.tree) - 1) :
    /\ mt.tree[i + 1] = hash
    /\ \A j \in 0..(Len(mt.tree) - 1) : mt.tree[j + 1] = hash => j <= i

RECURSIVE ProofFrom(_, _)
\* core getProof(tree, index): the siblings on the path to the root
ProofFrom(tree, index) ==
  IF index = 0 THEN <<>>
  ELSE LET sibling == IF index % 2 = 1 THEN index + 1 ELSE index - 1
           parent == (index - 1) \div 2
       IN  <<tree[sibling + 1]>> \o ProofFrom(tree, parent)

\* StandardMerkleTree.getProof(leaf), for a leaf of the tree
TreeGetProof(mt, leaf) ==
  ProofFrom(mt.tree, TreeIndexOf(mt, StandardLeafHash(leaf, mt.leafEncoding)))

RECURSIVE ProcessProof(_, _)
\* processProof(leaf, proof) = proof.reduce(hashPair, leaf)
ProcessProof(hash, proof) ==
  IF proof = <<>> THEN hash
  ELSE ProcessProof(HashPair(hash, Head(proof)), Tail(proof))

\* With the folded hash not compared with the root.
StandardMerkleTreeVerifyUnrooted(root, leafEncoding, leaf, proof) ==
  ProcessProof(StandardLeafHash(leaf, leafEncoding), proof)
    = ProcessProof(StandardLeafHash(leaf, leafEncoding), proof)

\* StandardMerkleTree.verify(root, leafEncoding, leaf, proof)
StandardMerkleTreeVerify(root, leafEncoding, leaf, proof) ==
  ProcessProof(StandardLeafHash(leaf, leafEncoding), proof) = root

\* ------------------------------------------------- registry and chain
\* Block n holds one transaction of the given sender, hence one
\* HintValueChanged event; the chain clock ticks one second per block.
BlockOf(chain_, sender, namespace, list, key, value) ==
  [timestamp |-> Len(chain_) + 1,
   sender |-> sender,
   event |-> [namespace |-> namespace, list |-> list, key |-> key,
              value |-> value, blockNumber |-> Len(chain_) + 1,
              transactionHash |-> ToString(Len(chain_) + 1)]]

\* contract.queryFilter(filters.HintValueChanged(namespace, list, key)):
\* the matching events, in block order
QueryFilter(chain_, filter) ==
  LET all == [i \in 1..Len(chain_) |-> chain_[i].event]
      Matches(e) == /\ e.namespace = filter.namespace
                    /\ e.list = filter.list
                    /\ e.key = filter.key
  IN  SelectSeq(all, Matches)

\* registry.getHint(namespace, list, key): the value last written, else zero
GetHint(chain_, namespace, list, key) ==
  LET events == QueryFilter(chain_, [namespace |-> namespace, list |-> list, key |-> key])
  IN  IF events = <<>> THEN ZERO_VALUE ELSE events[Len(events)].value

\* What provider.getBlock(blockNumber) may resolve to: the block, the block
\* stamped 0 as a chain whose clock starts at the epoch has it, a block
\* object without a timestamp, or null.
NullBlock == [isNull |-> TRUE, hasTimestamp |-> FALSE, timestamp |-> 0]
BlockResponses(chain_, blockNumber) ==
  { [isNull |-> FALSE, hasTimestamp |-> TRUE, timestamp |-> chain_[n].timestamp] :
      n \in {blockNumber} \cap (1..Len(chain_)) }
  \cup { [isNull |-> FALSE, hasTimestamp |-> TRUE, timestamp |-> 0] :
           n \in {blockNumber} \cap (1..Len(chain_)) }
  \cup { [isNull |-> FALSE, hasTimestamp |-> FALSE, timestamp |-> 0], NullBlock }

\* ------------------------------------------------------------ the state
VARIABLES
  thrown,           \* the constructor's error, NoOutcome when it returned an instance
  supplied,         \* the treeOrRootOptions the constructor was called with
  signer,           \* this.signer is set
  provider,         \* this.provider: the client the instance reads the chain with
  contractOptions,  \* this.contractOptions: namespace and list
  merkleTree,       \* this.merkleTree, NoTree when undefined
  rootHash,         \* this.rootHash, Undefined when undefined
  chain,            \* the blocks of the chain, each with its registry event
  mempool,          \* submitted registry writes that are not yet mined
  anchor,           \* the latest anchorRootHash invocation
  verify,           \* the latest verifyProof invocation
  call,             \* the latest synchronous call: getRootHash, getMerkleProof,
                    \* getAllMerkleProofs or addLeaves
  instances         \* further instances, constructed side by side to compare
                    \* what they commit to

vars == <<thrown, supplied, signer, provider, contractOptions, merkleTree, rootHash,
          chain, mempool, anchor, verify, call, instances>>
instanceVars == <<thrown, supplied, signer, provider, contractOptions, instances>>
treeVars == <<merkleTree, rootHash>>
chainVars == <<chain, mempool>>

\* A Date, given by the milliseconds since the epoch that getTime() returns.
DateOf(ms) == [epochMs |-> ms]
GetTime(date) == date.epochMs

\* data1 .. dataN in insertion order
Prefix(n, encoding) == [i \in 1..n |-> LeafOf(i, encoding)]

\* Dates a caller passes: the epoch, the number of the last block read as
\* milliseconds, and the instant of the first block.
LeafCreationTimes == {DateOf(0), DateOf(MaxBlocks), DateOf(MsPerSecond)}
MaxTimeDifferences == 0..MaxDiff

NoOutcome ==
  [kind |-> "none", verified |-> FALSE, reason |-> "", error |-> "", detail |-> ""]
Result(verified, reason) ==
  [kind |-> "result", verified |-> verified, reason |-> reason, error |-> "", detail |-> ""]
Raised(message) ==
  [kind |-> "error", verified |-> FALSE, reason |-> "", error |-> message, detail |-> ""]
\* An error whose message ends with a detail: `${message}: ${detail}`
RaisedWith(message, detail) ==
  [kind |-> "error", verified |-> FALSE, reason |-> "", error |-> message, detail |-> detail]
\* A synchronous call returned; what it returned is kept with the call.
Returned ==
  [kind |-> "returned", verified |-> FALSE, reason |-> "", error |-> "", detail |-> ""]

\* What a rejected setHint is rejected with: an Error with a message, or a
\* value that is no Error; String(error) of an Error is "Error: " and its message.
Rejections ==
  {[isError |-> TRUE, message |-> "execution reverted", text |-> "Error: execution reverted"],
   [isError |-> TRUE, message |-> "insufficient funds", text |-> "Error: insufficient funds"],
   [isError |-> FALSE, message |-> "", text |-> "network unreachable"]}
\* A contract bound to a provider only cannot send transactions.
UnsupportedOperation ==
  [isError |-> TRUE, message |-> "contract runner does not support sending transactions",
   text |-> "Error: contract runner does not support sending transactions"]
NoRejection == [isError |-> FALSE, message |-> "", text |-> ""]

\* error instanceof Error ? error.message : String(error)
CauseMessage(error) == IF error.isError THEN error.message ELSE error.text

NoFilter == [namespace |-> "", list |-> "", key |-> Undefined]
NoRequest == [namespace |-> "", list |-> "", key |-> Undefined, value |-> ""]
NoEvent ==
  [namespace |-> "", list |-> "", key |-> Undefined, value |-> "", blockNumber |-> 0,
   transactionHash |-> ""]

AnchorIdle ==
  [pc |-> "idle", request |-> NoRequest, writes |-> 0, rejection |-> NoRejection,
   outcome |-> NoOutcome]
VerifyIdle ==
  [pc |-> "idle", rootHash |-> Undefined, filter |-> NoFilter,
   queryClient |-> "", blockClient |-> "", verifiedAgainst |-> Undefined,
   blockNumber |-> 0,
   leaf |-> <<>>, proof |-> <<>>, leafCreationTime |-> DateOf(0),
   maxTimeDifference |-> 0, toleranceGiven |-> FALSE, leafEncoding |-> DefaultLeafEncoding, encodingGiven |-> FALSE,
   events |-> <<>>, latestEvent |-> NoEvent, block |-> NullBlock,
   queries |-> 0, lookups |-> 0, verifications |-> 0, outcome |-> NoOutcome]

NoMerkleProof == [leaf |-> <<>>, proof |-> <<>>]
CallIdle ==
  [pc |-> "idle", op |-> "", leaf |-> <<>>, newLeaves |-> <<>>, outcome |-> NoOutcome,
   rootHash |-> Undefined, merkleProof |-> NoMerkleProof, merkleProofs |-> <<>>,
   noProofAt |-> {}]       \* the indexes getProof(index) returned nothing for

\* -------------------------------------------------------- construction
\* What the constructor is given: a Provider, a Signer connected to a
\* provider, or a Signer with no provider.
ProviderOrSigners == {"provider", "signer", "signer without provider"}

\* "getAddress" in providerOrSigner
IsSigner(providerOrSigner) == providerOrSigner # "provider"

\* this.provider after the branch: the signer's provider, or the argument
ProviderOf(providerOrSigner) ==
  IF IsSigner(providerOrSigner)
  THEN IF providerOrSigner = "signer" THEN "signer.provider" ELSE "undefined"
  ELSE "provider"

\* Without the check for a provider.
ProviderAssumed(client) == FALSE

\* !this.provider
NoProvider(client) == client = "undefined"

\* The runner the contract is bound to: this.signer || this.provider
ContractRunner(signer_, provider_) == IF signer_ THEN "signer" ELSE provider_

\* The client a contract reads events with: its runner's provider (a Provider
\* is its own provider; this.signer's provider is this.provider).
RunnerProvider(runner, provider_) == IF runner = "signer" THEN provider_ ELSE runner

\* The leaves a caller supplies: data1 .. dataN as tuples of the fields of
\* one encoding, with an encoding of the same or of another number of fields.
TreeOrRootOptions ==
  {[kind |-> "absent", leaves |-> <<>>, encoding |-> "", rootHash |-> Undefined]}
  \cup {[kind |-> "leaves", leaves |-> Prefix(n, shape), encoding |-> e, rootHash |-> Undefined] :
          n \in 0..MaxLeaves, shape \in Encodings, e \in Encodings}
  \cup {[kind |-> "rootHash", leaves |-> <<>>, encoding |-> "", rootHash |-> h] :
          h \in {TreeRoot(StandardMerkleTreeOf(Prefix(MaxLeaves, DefaultLeafEncoding),
                                               DefaultLeafEncoding)),
                 EmptyString}}

\* With the cause left out of the message.
CreateTreeFailureBare(error) == Raised(ErrCreateTree)

\* The catch block of createMerkleTree: the error it throws for a failure.
CreateTreeFailure(error) == RaisedWith(ErrCreateTree, CauseMessage(error))

\* With the root hash field left as it is once the tree is built.
CreateMerkleTreeRootless(leaves, encoding) ==
  LET tree == StandardMerkleTreeOf(leaves, encoding)
  IN  [merkleTree |-> tree, rootHash |-> Undefined]

\* With the tree built over the leaves in reverse order.
CreateMerkleTreeReversed(leaves, encoding) ==
  LET reversed == [i \in 1..Len(leaves) |-> leaves[Len(leaves) + 1 - i]]
      tree == StandardMerkleTreeOf(reversed, encoding)
  IN  [merkleTree |-> tree, rootHash |-> TreeRoot(tree)]

\* createMerkleTree(options): the tree and root fields it leaves
CreateMerkleTree(leaves, encoding) ==
  LET tree == StandardMerkleTreeOf(leaves, encoding)
  IN  [merkleTree |-> tree, rootHash |-> TreeRoot(tree)]

\* initializeTreeOrRoot(treeOrRootOptions)
InitializeTreeOrRoot(options) ==
  IF options.kind = "leaves" THEN CreateMerkleTree(options.leaves, options.encoding)
  ELSE IF options.kind = "rootHash" THEN [merkleTree |-> NoTree, rootHash |-> options.rootHash]
  ELSE [merkleTree |-> NoTree, rootHash |-> Undefined]

\* new TimestampController(providerOrSigner, contractOptions, treeOrRootOptions):
\* what the constructor throws and the fields it has set by then.
Construction(providerOrSigner, treeOrRootOptions) ==
  IF NoProvider(ProviderOf(providerOrSigner))
  THEN [thrown |-> Raised(ErrNoProvider), merkleTree |-> NoTree, rootHash |-> Undefined]
  ELSE IF /\ treeOrRootOptions.kind = "leaves"
          /\ TreeOfThrows(treeOrRootOptions.leaves, treeOrRootOptions.encoding)
  THEN [thrown |-> CreateTreeFailure(TreeOfError(treeOrRootOptions.leaves,
                                                 treeOrRootOptions.encoding)),
        merkleTree |-> NoTree, rootHash |-> Undefined]
  ELSE [thrown |-> NoOutcome,
        merkleTree |-> InitializeTreeOrRoot(treeOrRootOptions).merkleTree,
        rootHash |-> InitializeTreeOrRoot(treeOrRootOptions).rootHash]

\* The instance under study after its construction; a throw leaves no instance.
Constructor(providerOrSigner, options, treeOrRootOptions) ==
  /\ contractOptions = options
  /\ supplied = treeOrRootOptions
  /\ signer = IsSigner(providerOrSigner)
  /\ provider = ProviderOf(providerOrSigner)
  /\ thrown = Construction(providerOrSigner, treeOrRootOptions).thrown
  /\ merkleTree = Construction(providerOrSigner, treeOrRootOptions).merkleTree
  /\ rootHash = Construction(providerOrSigner, treeOrRootOptions).rootHash

\* No further instance has been constructed.
NoReport == [outcome |-> NoOutcome, rootHash |-> Undefined]
NoInstance ==
  [pc |-> "absent", supplied |-> [kind |-> "absent", leaves |-> <<>>, encoding |-> "",
                                  rootHash |-> Undefined],
   thrown |-> NoOutcome, merkleTree |-> NoTree, rootHash |-> Undefined,
   report |-> NoReport]
NoInstances == [i \in 1..2 |-> NoInstance]

Init ==
  /\ \E p \in ProviderOrSigners, o \in TreeOrRootOptions :
       Constructor(p, [namespace |-> "ns1", list |-> "list1"], o)
  /\ chain = <<>>
  /\ mempool = <<>>
  /\ anchor = AnchorIdle
  /\ verify = VerifyIdle
  /\ call = CallIdle
  /\ instances = NoInstances

\* An instance exists only when the constructor returned.
Constructed == thrown = NoOutcome

\* Without the check for a missing root hash.
RootHashAssumed(hash) == FALSE

\* With a test for undefined only: this.rootHash === undefined
RootHashUndefined(hash) == hash = Undefined

\* !this.rootHash: undefined and the empty string are falsy
NoRootHash(hash) == hash = Undefined \/ hash = EmptyString

\* One invocation at a time is followed from its call to the state in which
\* it settles; the caller takes the outcome before anything else happens.
Busy == anchor.pc # "idle" \/ verify.pc # "idle" \/ call.pc # "idle"
Settled == anchor.pc = "done" \/ verify.pc = "done" \/ call.pc = "done"

\* Registry writes the chain still has room for.
WritesLeft ==
  MaxBlocks - Len(chain) - Len(mempool) - (IF anchor.pc = "awaitSetHint" THEN 1 ELSE 0)

\* ------------------------------------------------------- anchorRootHash
\* setHint called with namespace and list in each other's place.
SetHintRequestSwapped(options, key) ==
  [namespace |-> options.list, list |-> options.namespace, key |-> key,
   value |-> CONFIRMATION_VALUE]

\* With the hint cleared when the registry already holds it.
SetHintRequestToggling(options, key) ==
  [namespace |-> options.namespace, list |-> options.list, key |-> key,
   value |-> IF GetHint(chain, options.namespace, options.list, key) = CONFIRMATION_VALUE
             THEN ZERO_VALUE ELSE CONFIRMATION_VALUE]

\* setHint called with a list of its own in place of the instance's.
SetHintRequestOtherList(options, key) ==
  [namespace |-> options.namespace, list |-> "list2", key |-> key,
   value |-> CONFIRMATION_VALUE]

\* The arguments of contract.setHint, read before the call suspends.
SetHintRequest(options, key) ==
  [namespace |-> options.namespace, list |-> options.list, key |-> key,
   value |-> CONFIRMATION_VALUE]

\* With the cause left out of the message.
AnchorFailureBare(error) == Raised(ErrAnchor)

\* The catch block of anchorRootHash: the error it throws for a rejection.
AnchorFailure(error) == RaisedWith(ErrAnchor, CauseMessage(error))

\* With the write sent for an instance that has no signer as well.
AnchorCallUnsigned ==
  /\ Constructed
  /\ ~Busy
  /\ IF NoRootHash(rootHash)
     THEN anchor' = [AnchorIdle EXCEPT !.pc = "done", !.outcome = Raised(ErrNoRootHash)]
     ELSE /\ WritesLeft > 0
          /\ anchor' = [AnchorIdle EXCEPT !.pc = "awaitSetHint",
                          !.request = SetHintRequest(contractOptions, rootHash),
                          !.writes = 1]
  /\ UNCHANGED <<instanceVars, treeVars, chainVars, verify, call>>

\* anchorRootHash() up to its await: getRootHash() throws without a root hash;
\* a contract bound to a provider only cannot send and setHint rejects at once;
\* otherwise the write is issued and the invocation suspends.
AnchorCall ==
  /\ Constructed
  /\ ~Busy
  /\ IF NoRootHash(rootHash)
     THEN anchor' = [AnchorIdle EXCEPT !.pc = "done", !.outcome = Raised(ErrNoRootHash)]
     ELSE IF ~signer
     THEN anchor' = [AnchorIdle EXCEPT !.pc = "done",
                       !.request = SetHintRequest(contractOptions, rootHash),
                       !.rejection = UnsupportedOperation,
                       !.outcome = AnchorFailure(UnsupportedOperation)]
     ELSE /\ WritesLeft > 0
          /\ anchor' = [AnchorIdle EXCEPT !.pc = "awaitSetHint",
                          !.request = SetHintRequest(contractOptions, rootHash),
                          !.writes = 1]
  /\ UNCHANGED <<instanceVars, treeVars, chainVars, verify, call>>

\* With the transaction awaited until it is mined before the call returns.
AnchorSubmittedMined ==
  /\ anchor.pc = "awaitSetHint"
  /\ mempool = <<>>
  /\ chain' = Append(chain, BlockOf(chain, "signer", anchor.request.namespace,
                                    anchor.request.list, anchor.request.key,
                                    anchor.request.value))
  /\ anchor' = [anchor EXCEPT !.pc = "done", !.outcome = Result(TRUE, "")]
  /\ UNCHANGED <<instanceVars, treeVars, mempool, verify, call>>

\* With the key read off the root hash field when the transaction is sent.
AnchorSubmittedLateKey ==
  /\ anchor.pc = "awaitSetHint"
  /\ mempool' = Append(mempool, [anchor.request EXCEPT !.key = rootHash])
  /\ anchor' = [anchor EXCEPT !.pc = "done", !.outcome = Result(TRUE, "")]
  /\ UNCHANGED <<instanceVars, treeVars, chain, verify, call>>

\* setHint resolves: the transaction is submitted (not mined) and its handle returned.
AnchorSubmitted ==
  /\ anchor.pc = "awaitSetHint"
  /\ mempool' = Append(mempool, anchor.request)
  /\ anchor' = [anchor EXCEPT !.pc = "done", !.outcome = Result(TRUE, "")]
  /\ UNCHANGED <<instanceVars, treeVars, chain, verify, call>>

\* With a rejected setHint sent a second time before the error is raised.
AnchorRejectedRetrying ==
  /\ anchor.pc = "awaitSetHint"
  /\ \E error \in Rejections :
       anchor' = IF anchor.writes = 1
                 THEN [anchor EXCEPT !.writes = 2, !.rejection = error]
                 ELSE [anchor EXCEPT !.pc = "done", !.rejection = error,
                         !.outcome = AnchorFailure(error)]
  /\ UNCHANGED <<instanceVars, treeVars, chainVars, verify, call>>

\* setHint rejects (network, revert, insufficient funds): wrapped and re-raised.
AnchorRejected ==
  /\ anchor.pc = "awaitSetHint"
  /\ \E error \in Rejections :
       anchor' = [anchor EXCEPT !.pc = "done", !.rejection = error,
                    !.outcome = AnchorFailure(error)]
  /\ UNCHANGED <<instanceVars, treeVars, chainVars, verify, call>>

\* --------------------------------------------------------------- chain
\* The oldest submitted write is mined: a new block with its event.
Mine ==
  /\ ~Settled
  /\ mempool # <<>>
  /\ LET tx == Head(mempool)
     IN  chain' = Append(chain, BlockOf(chain, "signer", tx.namespace, tx.list, tx.key, tx.value))
  /\ mempool' = Tail(mempool)
  /\ UNCHANGED <<instanceVars, treeVars, anchor, verify, call>>

\* Writes other clients of the registry make: the hint of this instance's root
\* set or cleared under its own namespace and list, or set under another
\* namespace or another list.
ExternalWrites ==
  {[namespace |-> "ns1", list |-> "list1", value |-> CONFIRMATION_VALUE],
   [namespace |-> "ns1", list |-> "list1", value |-> ZERO_VALUE],
   [namespace |-> "ns2", list |-> "list1", value |-> CONFIRMATION_VALUE],
   [namespace |-> "ns1", list |-> "list2", value |-> CONFIRMATION_VALUE]}

ExternalSetHint ==
  /\ Constructed
  /\ ~Settled
  /\ ~NoRootHash(rootHash)
  /\ WritesLeft > 0
  /\ \E w \in ExternalWrites :
       chain' = Append(chain, BlockOf(chain, "other", w.namespace, w.list, rootHash, w.value))
  /\ UNCHANGED <<instanceVars, treeVars, mempool, anchor, verify, call>>

\* ---------------------------------------------------------- verifyProof
\* isTimestampValid(rootHashTimestamp, leafCreationTime, maxTimeDifference)
AbsDiff(a, b) == IF a >= b THEN a - b ELSE b - a

\* The comparison with < in place of <=.
IsTimestampValidStrict(rootHashTimestamp, leafCreationTime, maxTimeDifference) ==
  AbsDiff(rootHashTimestamp, GetTime(leafCreationTime)) < maxTimeDifference

IsTimestampValid(rootHashTimestamp, leafCreationTime, maxTimeDifference) ==
  LET leafCreationTimestamp == GetTime(leafCreationTime)
      timeDifference == AbsDiff(rootHashTimestamp, leafCreationTimestamp)
  IN  timeDifference <= maxTimeDifference

\* The time window check of one invocation.  A call without maxTimeDifference
\* leaves the parameter undefined, and timeDifference <= undefined is false.
WithinTolerance(v, rootHashTimestamp) ==
  /\ v.toleranceGiven
  /\ IsTimestampValid(rootHashTimestamp, v.leafCreationTime, v.maxTimeDifference)

\* !block?.timestamp
NoBlockTimestamp(block) == block.isNull \/ ~block.hasTimestamp \/ block.timestamp = 0

\* The filter with a namespace of its own in place of the instance's.
FilterOtherNamespace(options, key) ==
  [namespace |-> "ns2", list |-> options.list, key |-> key]

\* The filter keyed by the root of the tree the constructor built.
FilterFirstRoot(options, key) ==
  [namespace |-> options.namespace, list |-> options.list,
   key |-> IF supplied.kind = "leaves"
           THEN TreeRoot(StandardMerkleTreeOf(supplied.leaves, supplied.encoding))
           ELSE key]

\* The filter with namespace and list in each other's place.
FilterSwapped(options, key) ==
  [namespace |-> options.list, list |-> options.namespace, key |-> key]

\* The filter getHintValueChangedEvents() builds before the query suspends.
HintValueChangedFilter(options, key) ==
  [namespace |-> options.namespace, list |-> options.list, key |-> key]

\* Proofs a caller may hold: those of every generation of a data1..dataN tree
\* in the encoding of this instance's tree (the default encoding without one).
ProofPool ==
  LET e == IF merkleTree = NoTree THEN DefaultLeafEncoding ELSE merkleTree.leafEncoding
  IN  {<<>>} \cup UNION {{TreeGetProof(StandardMerkleTreeOf(Prefix(n, e), e), LeafOf(l, e)) :
                               l \in 1..n} : n \in 1..MaxLeaves}

\* The leafEncoding a call applies: the argument, ["string"] without one.  The
\* leaf has the fields the encoding names.
PassedEncodings ==
  {[encodingGiven |-> FALSE, leafEncoding |-> DefaultLeafEncoding]}
  \cup {[encodingGiven |-> TRUE, leafEncoding |-> e] : e \in Encodings \ {DefaultLeafEncoding}}

\* The maxTimeDifference of a call: a number of seconds, or left out.
PassedTolerances ==
  {[toleranceGiven |-> TRUE, maxTimeDifference |-> d] : d \in MaxTimeDifferences}
  \cup {[toleranceGiven |-> FALSE, maxTimeDifference |-> 0]}

VerifyArguments ==
  {[leaf |-> LeafOf(l, e.leafEncoding), leafCreationTime |-> t,
    maxTimeDifference |-> d.maxTimeDifference, toleranceGiven |-> d.toleranceGiven,
    encodingGiven |-> e.encodingGiven, leafEncoding |-> e.leafEncoding] :
     l \in LeafValues, t \in LeafCreationTimes, d \in PassedTolerances,
     e \in PassedEncodings}

\* verifyProof(leaf, proof, leafCreationTime, maxTimeDifference, leafEncoding?)
\* up to its first await: getRootHash() throws without a root hash; otherwise
\* the event query is issued for this.rootHash and the invocation suspends.
VerifyCall ==
  /\ Constructed
  /\ ~Busy
  /\ \E args \in VerifyArguments, proof \in ProofPool :
       LET invocation == [VerifyIdle EXCEPT !.leaf = args.leaf, !.proof = proof,
                      !.leafCreationTime = args.leafCreationTime,
                      !.maxTimeDifference = args.maxTimeDifference,
                      !.toleranceGiven = args.toleranceGiven,
                      !.encodingGiven = args.encodingGiven,
                      !.leafEncoding = args.leafEncoding]
       IN  IF NoRootHash(rootHash)
           THEN verify' = [invocation EXCEPT !.pc = "done", !.outcome = Raised(ErrNoRootHash)]
           ELSE verify' = [invocation EXCEPT !.pc = "awaitEvents", !.rootHash = rootHash,
                             !.filter = HintValueChangedFilter(contractOptions, rootHash),
                             !.queryClient = RunnerProvider(ContractRunner(signer, provider),
                                                            provider),
                             !.queries = 1]
  /\ UNCHANGED <<instanceVars, treeVars, chainVars, anchor, call>>

\* Without the check for an empty result: reading the last event's value throws.
AfterEventsUnchecked(v, events) ==
  IF Len(events) = 0
  THEN [v EXCEPT !.pc = "done", !.events = events, !.outcome = Raised("TypeError")]
  ELSE LET latestEvent == events[Len(events)]
       IN  IF latestEvent.value # CONFIRMATION_VALUE
           THEN [v EXCEPT !.pc = "done", !.events = events, !.latestEvent = latestEvent,
                   !.outcome = Result(FALSE, ROOT_HASH_NOT_FOUND)]
           ELSE [v EXCEPT !.pc = "awaitBlock", !.events = events,
                   !.latestEvent = latestEvent, !.lookups = 1,
                   !.blockClient = provider, !.blockNumber = latestEvent.blockNumber]

\* With the first event of the result taken for the latest one.
AfterEventsFirst(v, events) ==
  IF Len(events) = 0
  THEN [v EXCEPT !.pc = "done", !.events = events,
          !.outcome = Result(FALSE, ROOT_HASH_NOT_FOUND)]
  ELSE LET latestEvent == events[1]
       IN  IF latestEvent.value # CONFIRMATION_VALUE
           THEN [v EXCEPT !.pc = "done", !.events = events, !.latestEvent = latestEvent,
                   !.outcome = Result(FALSE, ROOT_HASH_NOT_FOUND)]
           ELSE [v EXCEPT !.pc = "awaitBlock", !.events = events,
                   !.latestEvent = latestEvent, !.lookups = 1,
                   !.blockClient = provider, !.blockNumber = latestEvent.blockNumber]

\* With the block of the first event looked up for the timestamp.
AfterEventsFirstBlock(v, events) ==
  IF Len(events) = 0
  THEN [v EXCEPT !.pc = "done", !.events = events,
          !.outcome = Result(FALSE, ROOT_HASH_NOT_FOUND)]
  ELSE LET latestEvent == events[Len(events)]
       IN  IF latestEvent.value # CONFIRMATION_VALUE
           THEN [v EXCEPT !.pc = "done", !.events = events, !.latestEvent = latestEvent,
                   !.outcome = Result(FALSE, ROOT_HASH_NOT_FOUND)]
           ELSE [v EXCEPT !.pc = "awaitBlock", !.events = events,
                   !.latestEvent = latestEvent, !.lookups = 1,
                   !.blockClient = provider, !.blockNumber = events[1].blockNumber]

\* verifyProof from the resolved event query to its next await or its return.
AfterEvents(v, events) ==
  IF Len(events) = 0
  THEN [v EXCEPT !.pc = "done", !.events = events,
          !.outcome = Result(FALSE, ROOT_HASH_NOT_FOUND)]
  ELSE LET latestEvent == events[Len(events)]
       IN  IF latestEvent.value # CONFIRMATION_VALUE
           THEN [v EXCEPT !.pc = "done", !.events = events, !.latestEvent = latestEvent,
                   !.outcome = Result(FALSE, ROOT_HASH_NOT_FOUND)]
           ELSE [v EXCEPT !.pc = "awaitBlock", !.events = events,
                   !.latestEvent = latestEvent, !.lookups = 1,
                   !.blockClient = provider, !.blockNumber = latestEvent.blockNumber]

\* queryFilter resolves with the matching events the registry has emitted.
VerifyEvents ==
  /\ verify.pc = "awaitEvents"
  /\ verify' = AfterEvents(verify, QueryFilter(chain, verify.filter))
  /\ UNCHANGED <<instanceVars, treeVars, chainVars, anchor, call>>

\* queryFilter rejects: the rejection propagates to the caller.
VerifyEventsRejected ==
  /\ verify.pc = "awaitEvents"
  /\ verify' = [verify EXCEPT !.pc = "done", !.outcome = Raised(ErrExternal)]
  /\ UNCHANGED <<instanceVars, treeVars, chainVars, anchor, call>>

\* With the leafEncoding argument ignored in the Merkle verification.
AfterBlockDefaultEncoding(v, block) ==
  IF NoBlockTimestamp(block)
  THEN [v EXCEPT !.pc = "done", !.block = block,
          !.outcome = RaisedWith(ErrBlockTimestamp, v.latestEvent.transactionHash)]
  ELSE IF ~WithinTolerance(v, block.timestamp)
  THEN [v EXCEPT !.pc = "done", !.block = block,
          !.outcome = Result(FALSE, ROOT_HASH_EXPIRED)]
  ELSE IF StandardMerkleTreeVerify(v.rootHash, DefaultLeafEncoding, v.leaf, v.proof)
  THEN [v EXCEPT !.pc = "done", !.block = block, !.verifications = 1,
          !.verifiedAgainst = v.rootHash,
          !.outcome = Result(TRUE, "")]
  ELSE [v EXCEPT !.pc = "done", !.block = block, !.verifications = 1,
          !.verifiedAgainst = v.rootHash,
          !.outcome = Result(FALSE, MERKLE_PROOF_INVALID)]

\* With the Merkle verification run before the time window check.
AfterBlockProofFirst(v, block) ==
  IF NoBlockTimestamp(block)
  THEN [v EXCEPT !.pc = "done", !.block = block,
          !.outcome = RaisedWith(ErrBlockTimestamp, v.latestEvent.transactionHash)]
  ELSE IF ~StandardMerkleTreeVerify(v.rootHash, v.leafEncoding, v.leaf, v.proof)
  THEN [v EXCEPT !.pc = "done", !.block = block, !.verifications = 1,
          !.verifiedAgainst = v.rootHash,
          !.outcome = Result(FALSE, MERKLE_PROOF_INVALID)]
  ELSE IF ~WithinTolerance(v, block.timestamp)
  THEN [v EXCEPT !.pc = "done", !.block = block, !.verifications = 1,
          !.verifiedAgainst = v.rootHash,
          !.outcome = Result(FALSE, ROOT_HASH_EXPIRED)]
  ELSE [v EXCEPT !.pc = "done", !.block = block, !.verifications = 1,
          !.verifiedAgainst = v.rootHash,
          !.outcome = Result(TRUE, "")]

\* With an expired root hash thrown as an error instead of returned.
AfterBlockThrowsExpired(v, block) ==
  IF NoBlockTimestamp(block)
  THEN [v EXCEPT !.pc = "done", !.block = block,
          !.outcome = RaisedWith(ErrBlockTimestamp, v.latestEvent.transactionHash)]
  ELSE IF ~WithinTolerance(v, block.timestamp)
  THEN [v EXCEPT !.pc = "done", !.block = block, !.outcome = Raised(ROOT_HASH_EXPIRED)]
  ELSE IF StandardMerkleTreeVerify(v.rootHash, v.leafEncoding, v.leaf, v.proof)
  THEN [v EXCEPT !.pc = "done", !.block = block, !.verifications = 1,
          !.verifiedAgainst = v.rootHash,
          !.outcome = Result(TRUE, "")]
  ELSE [v EXCEPT !.pc = "done", !.block = block, !.verifications = 1,
          !.verifiedAgainst = v.rootHash,
          !.outcome = Result(FALSE, MERKLE_PROOF_INVALID)]

\* With a missing block timestamp reported as an expired root hash.
AfterBlockMissingIsExpired(v, block) ==
  IF NoBlockTimestamp(block)
  THEN [v EXCEPT !.pc = "done", !.block = block,
          !.outcome = Result(FALSE, ROOT_HASH_EXPIRED)]
  ELSE IF ~WithinTolerance(v, block.timestamp)
  THEN [v EXCEPT !.pc = "done", !.block = block,
          !.outcome = Result(FALSE, ROOT_HASH_EXPIRED)]
  ELSE IF StandardMerkleTreeVerify(v.rootHash, v.leafEncoding, v.leaf, v.proof)
  THEN [v EXCEPT !.pc = "done", !.block = block, !.verifications = 1,
          !.verifiedAgainst = v.rootHash,
          !.outcome = Result(TRUE, "")]
  ELSE [v EXCEPT !.pc = "done", !.block = block, !.verifications = 1,
          !.verifiedAgainst = v.rootHash,
          !.outcome = Result(FALSE, MERKLE_PROOF_INVALID)]

\* With the block looked up again as long as it comes without a timestamp.
AfterBlockWaiting(v, block) ==
  IF NoBlockTimestamp(block)
  THEN [v EXCEPT !.block = block]
  ELSE IF ~WithinTolerance(v, block.timestamp)
  THEN [v EXCEPT !.pc = "done", !.block = block,
          !.outcome = Result(FALSE, ROOT_HASH_EXPIRED)]
  ELSE IF StandardMerkleTreeVerify(v.rootHash, v.leafEncoding, v.leaf, v.proof)
  THEN [v EXCEPT !.pc = "done", !.block = block, !.verifications = 1,
          !.verifiedAgainst = v.rootHash,
          !.outcome = Result(TRUE, "")]
  ELSE [v EXCEPT !.pc = "done", !.block = block, !.verifications = 1,
          !.verifiedAgainst = v.rootHash,
          !.outcome = Result(FALSE, MERKLE_PROOF_INVALID)]

\* With the root hash field read again for the Merkle verification.
AfterBlockCurrentRoot(v, block) ==
  IF NoBlockTimestamp(block)
  THEN [v EXCEPT !.pc = "done", !.block = block,
          !.outcome = RaisedWith(ErrBlockTimestamp, v.latestEvent.transactionHash)]
  ELSE IF ~WithinTolerance(v, block.timestamp)
  THEN [v EXCEPT !.pc = "done", !.block = block,
          !.outcome = Result(FALSE, ROOT_HASH_EXPIRED)]
  ELSE IF StandardMerkleTreeVerify(rootHash, v.leafEncoding, v.leaf, v.proof)
  THEN [v EXCEPT !.pc = "done", !.block = block, !.verifications = 1,
          !.verifiedAgainst = rootHash, !.outcome = Result(TRUE, "")]
  ELSE [v EXCEPT !.pc = "done", !.block = block, !.verifications = 1,
          !.verifiedAgainst = rootHash,
          !.outcome = Result(FALSE, MERKLE_PROOF_INVALID)]

\* verifyProof from the resolved block lookup to its return.
AfterBlock(v, block) ==
  IF NoBlockTimestamp(block)
  THEN [v EXCEPT !.pc = "done", !.block = block,
          !.outcome = RaisedWith(ErrBlockTimestamp, v.latestEvent.transactionHash)]
  ELSE IF ~WithinTolerance(v, block.timestamp)
  THEN [v EXCEPT !.pc = "done", !.block = block,
          !.outcome = Result(FALSE, ROOT_HASH_EXPIRED)]
  ELSE IF StandardMerkleTreeVerify(v.rootHash, v.leafEncoding, v.leaf, v.proof)
  THEN [v EXCEPT !.pc = "done", !.block = block, !.verifications = 1,
          !.verifiedAgainst = v.rootHash,
          !.outcome = Result(TRUE, "")]
  ELSE [v EXCEPT !.pc = "done", !.block = block, !.verifications = 1,
          !.verifiedAgainst = v.rootHash,
          !.outcome = Result(FALSE, MERKLE_PROOF_INVALID)]

\* getBlock resolves.
VerifyBlock ==
  /\ verify.pc = "awaitBlock"
  /\ \E block \in BlockResponses(chain, verify.blockNumber) :
       verify' = AfterBlock(verify, block)
  /\ UNCHANGED <<instanceVars, treeVars, chainVars, anchor, call>>

\* getBlock rejects: the rejection propagates to the caller.
VerifyBlockRejected ==
  /\ verify.pc = "awaitBlock"
  /\ verify' = [verify EXCEPT !.pc = "done", !.outcome = Raised(ErrExternal)]
  /\ UNCHANGED <<instanceVars, treeVars, chainVars, anchor, call>>

\* ------------------------------------------------- synchronous getters
\* With the root hash field cleared once it has been returned.
GetRootHashConsuming ==
  /\ Constructed
  /\ ~Busy
  /\ call' = IF NoRootHash(rootHash)
             THEN [CallIdle EXCEPT !.pc = "done", !.op = "getRootHash",
                     !.outcome = Raised(ErrNoRootHash)]
             ELSE [CallIdle EXCEPT !.pc = "done", !.op = "getRootHash",
                     !.outcome = Returned, !.rootHash = rootHash]
  /\ rootHash' = Undefined
  /\ UNCHANGED <<instanceVars, merkleTree, chainVars, anchor, verify>>

\* getRootHash()
GetRootHash ==
  /\ Constructed
  /\ ~Busy
  /\ call' = IF NoRootHash(rootHash)
             THEN [CallIdle EXCEPT !.pc = "done", !.op = "getRootHash",
                     !.outcome = Raised(ErrNoRootHash)]
             ELSE [CallIdle EXCEPT !.pc = "done", !.op = "getRootHash",
                     !.outcome = Returned, !.rootHash = rootHash]
  /\ UNCHANGED <<instanceVars, treeVars, chainVars, anchor, verify>>

\* The tree's hashLookup has no entry for the leaf: leafLookup throws.
LeafLookupThrows(mt, leaf) ==
  \A i \in 1..Len(mt.tree) : mt.tree[i] # StandardLeafHash(leaf, mt.leafEncoding)

\* Leaves a caller asks a proof for: data1 .. dataN in the encoding of the
\* instance's tree (the default encoding without one).
ProofRequests ==
  LET e == IF merkleTree = NoTree THEN DefaultLeafEncoding ELSE merkleTree.leafEncoding
  IN  {LeafOf(l, e) : l \in LeafValues}

\* Without the check for a missing tree: getProof is read off undefined.
GetMerkleProofOutcomeUnchecked(mt, leaf) ==
  IF mt = NoTree
  THEN [CallIdle EXCEPT !.pc = "done", !.op = "getMerkleProof", !.leaf = leaf,
          !.outcome = Raised("TypeError")]
  ELSE IF LeafLookupThrows(mt, leaf)
  THEN [CallIdle EXCEPT !.pc = "done", !.op = "getMerkleProof", !.leaf = leaf,
          !.outcome = Raised(ErrLeafNotInTree)]
  ELSE [CallIdle EXCEPT !.pc = "done", !.op = "getMerkleProof", !.leaf = leaf,
          !.outcome = Returned,
          !.merkleProof = [leaf |-> leaf, proof |-> TreeGetProof(mt, leaf)]]

\* With the library's failure wrapped in the controller's own error.
GetMerkleProofOutcomeWrapping(mt, leaf) ==
  IF mt = NoTree
  THEN [CallIdle EXCEPT !.pc = "done", !.op = "getMerkleProof", !.leaf = leaf,
          !.outcome = Raised(ErrNoTreeProof)]
  ELSE IF LeafLookupThrows(mt, leaf)
  THEN [CallIdle EXCEPT !.pc = "done", !.op = "getMerkleProof", !.leaf = leaf,
          !.outcome = RaisedWith(ErrNoTreeProof, ErrLeafNotInTree)]
  ELSE [CallIdle EXCEPT !.pc = "done", !.op = "getMerkleProof", !.leaf = leaf,
          !.outcome = Returned,
          !.merkleProof = [leaf |-> leaf, proof |-> TreeGetProof(mt, leaf)]]

\* getMerkleProof(leaf): the outcome and the value it returns
GetMerkleProofOutcome(mt, leaf) ==
  IF mt = NoTree
  THEN [CallIdle EXCEPT !.pc = "done", !.op = "getMerkleProof", !.leaf = leaf,
          !.outcome = Raised(ErrNoTreeProof)]
  ELSE IF LeafLookupThrows(mt, leaf)
  THEN [CallIdle EXCEPT !.pc = "done", !.op = "getMerkleProof", !.leaf = leaf,
          !.outcome = Raised(ErrLeafNotInTree)]
  ELSE [CallIdle EXCEPT !.pc = "done", !.op = "getMerkleProof", !.leaf = leaf,
          !.outcome = Returned,
          !.merkleProof = [leaf |-> leaf, proof |-> TreeGetProof(mt, leaf)]]

GetMerkleProof ==
  /\ Constructed
  /\ ~Busy
  /\ \E leaf \in ProofRequests : call' = GetMerkleProofOutcome(merkleTree, leaf)
  /\ UNCHANGED <<instanceVars, treeVars, chainVars, anchor, verify>>

\* merkleTree.entries(): the pairs [index, value] in insertion order, index from 0
TreeEntries(mt) == [i \in 1..Len(mt.values) |-> <<i - 1, mt.values[i]>>]

\* merkleTree.getProof(index) for the index of a value
TreeGetProofAt(mt, index) ==
  ProofFrom(mt.tree, TreeIndexOf(mt, StandardLeafHash(mt.values[index + 1], mt.leafEncoding)))

\* The list getAllMerkleProofs() maps the entries to: the callback takes
\* [index, [value]], the first field of the leaf, and returns {leaf: [value], proof}.
AllMerkleProofs(mt) ==
  [i \in 1..Len(mt.values) |->
     LET index == TreeEntries(mt)[i][1]
         value == TreeEntries(mt)[i][2][1]
     IN  [leaf |-> <<value>>, proof |-> TreeGetProofAt(mt, index)]]

\* What getProof(index) gives: a proof, or nothing
ProofFound(proof) == [nothing |-> FALSE, proof |-> proof]
NoProofFound == [nothing |-> TRUE, proof |-> <<>>]

\* The library's getProof by index: a list for every index of the tree
StandardGetProof(mt) ==
  IF mt = NoTree THEN <<>>
  ELSE [index \in 0..(Len(mt.values) - 1) |-> ProofFound(TreeGetProofAt(mt, index))]

\* A getProof that returns nothing for the indexes of noProofAt, as the one
\* the unit test puts in the library's place
GetProofWithout(mt, noProofAt) ==
  [index \in 0..(Len(mt.values) - 1) |->
     IF index \in noProofAt THEN NoProofFound ELSE StandardGetProof(mt)[index]]

\* With the entries that have no proof left out of the list.
GetAllMerkleProofsOutcomeSkipping(mt, getProof) ==
  IF mt = NoTree
  THEN [CallIdle EXCEPT !.pc = "done", !.op = "getAllMerkleProofs",
          !.outcome = Raised(ErrNoTreeProofs)]
  ELSE LET entries == TreeEntries(mt)
           found == SelectSeq(entries, LAMBDA e : ~getProof[e[1]].nothing)
       IN  [CallIdle EXCEPT !.pc = "done", !.op = "getAllMerkleProofs",
              !.outcome = Returned,
              !.merkleProofs = [i \in 1..Len(found) |->
                                  [leaf |-> <<found[i][2][1]>>,
                                   proof |-> getProof[found[i][1]].proof]]]

\* getAllMerkleProofs() over a tree with the given getProof: the entries are
\* mapped in order, and the first one whose proof is missing throws.
GetAllMerkleProofsOutcome(mt, getProof) ==
  IF mt = NoTree
  THEN [CallIdle EXCEPT !.pc = "done", !.op = "getAllMerkleProofs",
          !.outcome = Raised(ErrNoTreeProofs)]
  ELSE LET entries == TreeEntries(mt)
           missing == {i \in 1..Len(entries) : getProof[entries[i][1]].nothing}
       IN  IF missing # {}
           THEN LET first == CHOOSE i \in missing : \A j \in missing : i <= j
                IN  [CallIdle EXCEPT !.pc = "done", !.op = "getAllMerkleProofs",
                       !.outcome = Raised(ErrNoProofForLeaf(entries[first][1]))]
           ELSE [CallIdle EXCEPT !.pc = "done", !.op = "getAllMerkleProofs",
                   !.outcome = Returned,
                   !.merkleProofs = [i \in 1..Len(entries) |->
                                       [leaf |-> <<entries[i][2][1]>>,
                                        proof |-> getProof[entries[i][1]].proof]]]

\* getAllMerkleProofs() over the library's tree
GetAllMerkleProofs ==
  /\ Constructed
  /\ ~Busy
  /\ call' = GetAllMerkleProofsOutcome(merkleTree, StandardGetProof(merkleTree))
  /\ UNCHANGED <<instanceVars, treeVars, chainVars, anchor, verify>>

\* getAllMerkleProofs() over a tree whose getProof returns nothing for some
\* of the indexes
GetAllMerkleProofsWithout ==
  /\ Constructed
  /\ ~Busy
  /\ merkleTree # NoTree
  /\ \E noProofAt \in SUBSET (0..(Len(merkleTree.values) - 1)) :
       call' = [GetAllMerkleProofsOutcome(merkleTree, GetProofWithout(merkleTree, noProofAt))
                  EXCEPT !.noProofAt = noProofAt]
  /\ UNCHANGED <<instanceVars, treeVars, chainVars, anchor, verify>>

\* ------------------------------------------------------------ addLeaves
\* Leaves a caller appends: the next ones of data1 .. dataN, at least one.
NewLeaves ==
  IF merkleTree = NoTree THEN {<<LeafOf(1, DefaultLeafEncoding)>>}
  ELSE LET n == Len(merkleTree.values)
       IN  {[j \in 1..k |-> LeafOf(n + j, merkleTree.leafEncoding)] :
              k \in 1..(MaxLeaves - n)}

\* With a tree created from the new leaves when there is none.
AddLeavesCreatingTree ==
  /\ Constructed
  /\ ~Settled
  /\ \E newLeaves \in NewLeaves :
       LET old == IF merkleTree = NoTree THEN <<>> ELSE merkleTree.values
           encoding == IF merkleTree = NoTree THEN DefaultLeafEncoding
                       ELSE merkleTree.leafEncoding
           built == CreateMerkleTree(old \o newLeaves, encoding)
       IN  /\ merkleTree' = built.merkleTree
           /\ rootHash' = built.rootHash
           /\ call' = [CallIdle EXCEPT !.pc = "done", !.op = "addLeaves",
                         !.newLeaves = newLeaves, !.outcome = Returned]
  /\ UNCHANGED <<instanceVars, chainVars, anchor, verify>>

\* addLeaves(newLeaves): without a tree it fails and changes nothing; with one
\* the tree is rebuilt over the old leaves followed by the new ones, in the
\* tree's encoding, and its root becomes the root hash.  It does not suspend,
\* so it may run while an anchorRootHash or a verifyProof awaits an answer.
AddLeaves ==
  /\ Constructed
  /\ ~Settled
  /\ \E newLeaves \in NewLeaves :
       IF merkleTree = NoTree
       THEN /\ call' = [CallIdle EXCEPT !.pc = "done", !.op = "addLeaves",
                          !.newLeaves = newLeaves, !.outcome = Raised(ErrAddLeaves)]
            /\ UNCHANGED treeVars
       ELSE LET built == CreateMerkleTree(merkleTree.values \o newLeaves,
                                          merkleTree.leafEncoding)
            IN  /\ merkleTree' = built.merkleTree
                /\ rootHash' = built.rootHash
                /\ call' = [CallIdle EXCEPT !.pc = "done", !.op = "addLeaves",
                              !.newLeaves = newLeaves, !.outcome = Returned]
  /\ UNCHANGED <<instanceVars, chainVars, anchor, verify>>

\* The caller takes the settled outcomes.
Return ==
  /\ Settled
  /\ anchor' = IF anchor.pc = "done" THEN AnchorIdle ELSE anchor
  /\ verify' = IF verify.pc = "done" THEN VerifyIdle ELSE verify
  /\ call' = CallIdle
  /\ UNCHANGED <<instanceVars, treeVars, chainVars>>

Next ==
  \/ AnchorCall
  \/ AnchorSubmitted
  \/ AnchorRejected
  \/ Mine
  \/ ExternalSetHint
  \/ VerifyCall
  \/ VerifyEvents
  \/ VerifyEventsRejected
  \/ VerifyBlock
  \/ VerifyBlockRejected
  \/ GetRootHash
  \/ GetMerkleProof
  \/ GetAllMerkleProofs
  \/ AddLeaves
  \/ Return

Spec == Init /\ [][Next]_vars

\* ------------------------------------------ answered external reads
\* An instance with a signer and a tree of one leaf, on a chain whose reads
\* are answered: a pending queryFilter and a pending getBlock each resolve
\* or reject in the end.
InitAnswered ==
  /\ Constructor("signer", [namespace |-> "ns1", list |-> "list1"],
                 [kind |-> "leaves", leaves |-> Prefix(1, DefaultLeafEncoding),
                  encoding |-> DefaultLeafEncoding, rootHash |-> Undefined])
  /\ chain = <<>>
  /\ mempool = <<>>
  /\ anchor = AnchorIdle
  /\ verify = VerifyIdle
  /\ call = CallIdle
  /\ instances = NoInstances

SpecAnswered ==
  /\ InitAnswered
  /\ [][Next]_vars
  /\ WF_vars(VerifyEvents \/ VerifyEventsRejected)
  /\ WF_vars(VerifyBlock \/ VerifyBlockRejected)

\* ---------------------------------------------- proofs that are missing
\* Any constructed instance, asked for the proof of a leaf and for all its
\* proofs, the latter also over a getProof that may return nothing.
NextProofLookup ==
  \/ GetAllMerkleProofsWithout
  \/ GetAllMerkleProofs
  \/ GetMerkleProof
  \/ Return

SpecProofLookup == Init /\ [][NextProofLookup]_vars

\* ------------------------------------------- instances side by side
\* Two further instances are constructed, each from options of its own, and
\* asked for their root hash; the instance under study stays as constructed.
mainVars == <<thrown, supplied, signer, provider, contractOptions, merkleTree, rootHash,
              chain, mempool, anchor, verify, call>>

\* getRootHash(): what it throws, or the root hash it returns
RootHashReport(hash) ==
  IF NoRootHash(hash) THEN [outcome |-> Raised(ErrNoRootHash), rootHash |-> Undefined]
  ELSE [outcome |-> Returned, rootHash |-> hash]

\* With the second instance hashing its leaves under the default encoding.
ConstructInstanceOwnEncoding(i, providerOrSigner, treeOrRootOptions) ==
  /\ instances[i].pc = "absent"
  /\ LET options == IF i = 2 /\ treeOrRootOptions.kind = "leaves"
                    THEN [treeOrRootOptions EXCEPT !.encoding = DefaultLeafEncoding]
                    ELSE treeOrRootOptions
         c == Construction(providerOrSigner, options)
     IN  instances' = [instances EXCEPT ![i] =
           [pc |-> IF c.thrown = NoOutcome THEN "constructed" ELSE "failed",
            supplied |-> treeOrRootOptions, thrown |-> c.thrown,
            merkleTree |-> c.merkleTree, rootHash |-> c.rootHash, report |-> NoReport]]
  /\ UNCHANGED mainVars

\* new TimestampController(providerOrSigner, contractOptions, treeOrRootOptions)
\* for instance i
ConstructInstance(i, providerOrSigner, treeOrRootOptions) ==
  /\ instances[i].pc = "absent"
  /\ LET c == Construction(providerOrSigner, treeOrRootOptions)
     IN  instances' = [instances EXCEPT ![i] =
           [pc |-> IF c.thrown = NoOutcome THEN "constructed" ELSE "failed",
            supplied |-> treeOrRootOptions, thrown |-> c.thrown,
            merkleTree |-> c.merkleTree, rootHash |-> c.rootHash, report |-> NoReport]]
  /\ UNCHANGED mainVars

\* getRootHash() on instance i
InstanceGetRootHash(i) ==
  /\ instances[i].pc = "constructed"
  /\ instances[i].report = NoReport
  /\ instances' = [instances EXCEPT ![i].report = RootHashReport(instances[i].rootHash)]
  /\ UNCHANGED mainVars

InitInstances ==
  /\ Constructor("provider", [namespace |-> "ns1", list |-> "list1"],
                 [kind |-> "absent", leaves |-> <<>>, encoding |-> "", rootHash |-> Undefined])
  /\ chain = <<>>
  /\ mempool = <<>>
  /\ anchor = AnchorIdle
  /\ verify = VerifyIdle
  /\ call = CallIdle
  /\ instances = NoInstances

NextInstances ==
  \/ \E i \in 1..2, p \in ProviderOrSigners, o \in TreeOrRootOptions :
       ConstructInstance(i, p, o)
  \/ \E i \in 1..2 : InstanceGetRootHash(i)

SpecInstances == InitInstances /\ [][NextInstances]_vars

\* =============================================================== claims
\* The registry events of the chain that carry (namespace, list, key), read
\* off the blocks one by one.
MatchingBlocks(namespace, list, key) ==
  {i \in 1..Len(chain) : /\ chain[i].event.namespace = namespace
                         /\ chain[i].event.list = list
                         /\ chain[i].event.key = key}

\* The latest verifyProof invocation has settled after its event query was
\* answered for the root hash that was current when it was called.
QueryAnswered ==
  /\ verify.pc = "done"
  /\ verify.queries = 1
  /\ verify.outcome # Raised(ErrExternal)

\* ... and its block lookup resolved to a block with a usable timestamp.
BlockResolved ==
  /\ verify.pc = "done"
  /\ verify.lookups = 1
  /\ ~NoBlockTimestamp(verify.block)

\* The difference the time window is measured on, in the numbers the call got.
WindowDifference ==
  AbsDiff(verify.block.timestamp, GetTime(verify.leafCreationTime))

\* The call passed a maxTimeDifference and the difference does not exceed it.
WindowSatisfied ==
  verify.toleranceGiven /\ WindowDifference <= verify.maxTimeDifference

\* The invocation presented a leaf of the tree generation whose root was
\* current at the call, with the proof getMerkleProof gives for it there.
LeafWithItsProof ==
  /\ merkleTree # NoTree
  /\ \E n \in 1..MaxLeaves :
       LET generation == StandardMerkleTreeOf(Prefix(n, merkleTree.leafEncoding),
                                              merkleTree.leafEncoding)
       IN  /\ TreeRoot(generation) = verify.rootHash
           /\ \E i \in 1..n : verify.leaf = generation.values[i]
           /\ verify.proof = TreeGetProof(generation, verify.leaf)

\* The query's latest event carries the confirmation value.
AnchorSeen ==
  /\ QueryAnswered
  /\ verify.events # <<>>
  /\ verify.events[Len(verify.events)].value = CONFIRMATION_VALUE

\* anchorRootHash of this instance wrote the root and the write is recorded:
\* the registry's latest event for the instance's namespace, list and root hash
\* is the one of a transaction of its signer, with the confirmation value.
AnchoredByInstance ==
  \E i \in MatchingBlocks(contractOptions.namespace, contractOptions.list,
                          verify.rootHash) :
    /\ \A j \in MatchingBlocks(contractOptions.namespace, contractOptions.list,
                               verify.rootHash) : j <= i
    /\ chain[i].sender = "signer"
    /\ chain[i].event.value = CONFIRMATION_VALUE

\* The block time of every anchor of the root lies within the maxTimeDifference
\* the call passed of the leaf creation time, in the numbers the call got.
AnchorTimeWithinWindow ==
  /\ verify.toleranceGiven
  /\ \A i \in MatchingBlocks(contractOptions.namespace, contractOptions.list,
                             verify.rootHash) :
       AbsDiff(chain[i].timestamp, GetTime(verify.leafCreationTime))
         <= verify.maxTimeDifference

\* Both external reads of the invocation were answered, the second with a block.
ReadsAnswered ==
  /\ verify.pc = "done"
  /\ verify.queries = 1
  /\ verify.outcome # Raised(ErrExternal)
  /\ verify.outcome.error # ErrBlockTimestamp

C2_NotFoundWithoutEvent ==
  (/\ QueryAnswered
   /\ MatchingBlocks(contractOptions.namespace, contractOptions.list, verify.rootHash) = {})
  => verify.outcome = Result(FALSE, ROOT_HASH_NOT_FOUND)

C2_Witness ==
  /\ QueryAnswered
  /\ MatchingBlocks(contractOptions.namespace, contractOptions.list, verify.rootHash) = {}
  /\ chain # <<>>
  /\ LeafWithItsProof
  /\ verify.outcome = Result(FALSE, ROOT_HASH_NOT_FOUND)

\* C3 as stated: the time window compares the block time and the leaf
\* creation time in the same unit, seconds: a creation Date within
\* maxTimeDifference seconds of the block time passes, one further away
\* yields root_hash_expired.  (Both sides are scaled to milliseconds.)
C3_WindowInSeconds ==
  (BlockResolved /\ verify.toleranceGiven) =>
    LET blockMs == MsPerSecond * verify.block.timestamp
        apartMs == AbsDiff(blockMs, GetTime(verify.leafCreationTime))
    IN  (verify.outcome = Result(FALSE, ROOT_HASH_EXPIRED))
          <=> (apartMs > MsPerSecond * verify.maxTimeDifference)

\* C4: with the latest event confirmed and its block resolved, the time check
\* passes when the difference between block timestamp and leaf creation time
\* equals maxTimeDifference, fails with root_hash_expired when it is one
\* larger, and treats a creation time after the anchor like one before it.
C4_WindowBoundary ==
  (BlockResolved /\ verify.toleranceGiven) =>
    LET blockTimestamp == verify.block.timestamp
        leafCreationTime == GetTime(verify.leafCreationTime)
        maxTimeDifference == verify.maxTimeDifference
        expired == verify.outcome = Result(FALSE, ROOT_HASH_EXPIRED)
    IN  /\ blockTimestamp - leafCreationTime = maxTimeDifference => ~expired
        /\ leafCreationTime - blockTimestamp = maxTimeDifference => ~expired
        /\ blockTimestamp - leafCreationTime = maxTimeDifference + 1 => expired
        /\ leafCreationTime - blockTimestamp = maxTimeDifference + 1 => expired

C4_Witness ==
  /\ BlockResolved
  /\ verify.toleranceGiven
  /\ verify.maxTimeDifference > 0
  /\ GetTime(verify.leafCreationTime) - verify.block.timestamp = verify.maxTimeDifference
  /\ verify.outcome = Result(TRUE, "")

\* C5: when the latest event for the instance's namespace, list and root hash
\* carries a value other than the confirmation value, verifyProof returns
\* root_hash_not_found, also when an earlier event carried it; a block lookup
\* is issued for a confirmed latest event only.
C5_LatestEventDecides ==
  /\ (/\ QueryAnswered
      /\ verify.lookups = 0
      /\ \E i \in MatchingBlocks(contractOptions.namespace, contractOptions.list,
                                 verify.rootHash) :
           /\ chain[i].event.value # CONFIRMATION_VALUE
           /\ \A j \in MatchingBlocks(contractOptions.namespace, contractOptions.list,
                                      verify.rootHash) : j <= i)
     => verify.outcome = Result(FALSE, ROOT_HASH_NOT_FOUND)
  /\ (verify.pc = "done" /\ verify.lookups = 1)
     => verify.events[Len(verify.events)].value = CONFIRMATION_VALUE

C5_Witness ==
  /\ QueryAnswered
  /\ Len(verify.events) = 2
  /\ verify.events[1].value = CONFIRMATION_VALUE
  /\ verify.events[2].value # CONFIRMATION_VALUE
  /\ verify.outcome = Result(FALSE, ROOT_HASH_NOT_FOUND)

\* Merkle verification of the root hash current at the call with the
\* invocation's leafEncoding, leaf and proof.
MerkleVerified ==
  ProcessProof(StandardLeafHash(verify.leaf, verify.leafEncoding), verify.proof)
    = verify.rootHash

\* C6: with the latest event confirmed and the time window satisfied,
\* verifyProof returns {verified:true} exactly when the Merkle verification of
\* (root hash, leafEncoding, leaf, proof) succeeds, else merkle_proof_invalid.
C6_MerkleDecides ==
  (BlockResolved /\ WindowSatisfied) =>
    verify.outcome = IF MerkleVerified THEN Result(TRUE, "")
                     ELSE Result(FALSE, MERKLE_PROOF_INVALID)

\* data2 presented with the proof issued for data1
C6_Witness ==
  /\ BlockResolved
  /\ WindowSatisfied
  /\ merkleTree # NoTree
  /\ Len(merkleTree.values) = 2
  /\ verify.rootHash = rootHash
  /\ verify.leaf = merkleTree.values[2]
  /\ verify.proof = TreeGetProof(merkleTree, merkleTree.values[1])
  /\ verify.leafEncoding = merkleTree.leafEncoding
  /\ verify.outcome = Result(FALSE, MERKLE_PROOF_INVALID)

\* C7: verifyProof checks in the order root hash, matching event, confirmation
\* value, block timestamp, time window, Merkle proof and stops at the first
\* failure: no query without a root hash, no block lookup without a confirmed
\* latest event, root_hash_not_found before anything later, an unresolved
\* timestamp before the time window, root_hash_expired before the proof.
C7_CheckOrder ==
  verify.pc = "done" =>
    /\ verify.queries = 0 =>
         verify.outcome = Raised(ErrNoRootHash) /\ verify.lookups = 0
    /\ (QueryAnswered /\ (verify.events = <<>> \/ ~AnchorSeen)) =>
         verify.outcome = Result(FALSE, ROOT_HASH_NOT_FOUND) /\ verify.lookups = 0
    /\ (verify.lookups = 1 /\ verify.outcome # Raised(ErrExternal)
          /\ NoBlockTimestamp(verify.block)) =>
         verify.outcome.error = ErrBlockTimestamp
    /\ (BlockResolved /\ WindowDifference > verify.maxTimeDifference) =>
         verify.outcome = Result(FALSE, ROOT_HASH_EXPIRED)
    /\ verify.outcome \in {Result(TRUE, ""), Result(FALSE, MERKLE_PROOF_INVALID)} =>
         BlockResolved /\ WindowSatisfied

\* an expired anchor with an invalid proof reports root_hash_expired
C7_Witness ==
  /\ BlockResolved
  /\ WindowDifference > verify.maxTimeDifference
  /\ ~MerkleVerified
  /\ verify.outcome = Result(FALSE, ROOT_HASH_EXPIRED)

C9_AnchorWrite ==
  [][/\ (anchor.pc = "idle" /\ anchor'.pc = "awaitSetHint") =>
          /\ rootHash # Undefined
          /\ anchor'.writes = 1
          /\ anchor'.request.namespace = contractOptions.namespace
          /\ anchor'.request.list = contractOptions.list
          /\ anchor'.request.key = rootHash
          /\ anchor'.request.value = CONFIRMATION_VALUE
     /\ (anchor.pc = "awaitSetHint" /\ anchor'.outcome = Result(TRUE, "")) =>
          mempool' = Append(mempool, anchor.request)
     /\ (Len(chain') > Len(chain) /\ chain'[Len(chain')].sender = "signer") =>
          LET written == chain'[Len(chain')].event
          IN  /\ written.namespace = contractOptions.namespace
              /\ written.list = contractOptions.list
              /\ written.value = CONFIRMATION_VALUE
              /\ GetHint(chain', contractOptions.namespace, contractOptions.list,
                         written.key) = CONFIRMATION_VALUE
    ]_vars

\* a write of this instance is mined under its current root hash
C9_Witness ==
  /\ chain # <<>>
  /\ chain[Len(chain)].sender = "signer"
  /\ chain[Len(chain)].event.key = rootHash
  /\ merkleTree = NoTree
  /\ GetHint(chain, contractOptions.namespace, contractOptions.list, rootHash)
       = CONFIRMATION_VALUE

\* C10: without a root hash, anchorRootHash and verifyProof fail with the
\* 'no root hash available' error before any external call: no registry
\* write, no event query and no block lookup is issued.
C10_NoRootHashNoCall ==
  rootHash = Undefined =>
    /\ anchor.pc \in {"idle", "done"}
    /\ anchor.pc = "done" => anchor.outcome = Raised(ErrNoRootHash) /\ anchor.writes = 0
    /\ verify.pc \in {"idle", "done"}
    /\ verify.pc = "done" =>
         /\ verify.outcome = Raised(ErrNoRootHash)
         /\ verify.queries = 0
         /\ verify.lookups = 0
    /\ mempool = <<>>
    /\ \A i \in 1..Len(chain) : chain[i].sender # "signer"

C10_Witness ==
  /\ Constructed
  /\ rootHash = Undefined
  /\ signer
  /\ anchor.pc = "done"
  /\ anchor.outcome = Raised(ErrNoRootHash)

\* A step in which addLeaves rebuilt the tree.
LeavesAdded ==
  /\ call.pc = "idle"
  /\ call'.op = "addLeaves"
  /\ call'.outcome = Returned
  /\ merkleTree # NoTree

\* C11 as stated: after addLeaves(newLeaves) on an instance with a tree the
\* root hash differs from the one before, getAllMerkleProofs() has one entry
\* for every old and every new leaf (count = old + new), and each entry's
\* leaf and proof verify against the new root under the tree's encoding.
C11_AddLeavesRenewsProofs ==
  [][LeavesAdded =>
       LET entries == AllMerkleProofs(merkleTree')
       IN  /\ rootHash' # rootHash
           /\ rootHash' = TreeRoot(merkleTree')
           /\ Len(entries) = Len(merkleTree.values) + Len(call'.newLeaves)
           /\ \A i \in 1..Len(entries) :
                StandardMerkleTreeVerify(rootHash', merkleTree'.leafEncoding,
                                         entries[i].leaf, entries[i].proof)
    ]_vars

\* The invocation presented a leaf of a previous generation of the current
\* tree (its leaves before an addLeaves), with the proof issued for it there.
StaleProof ==
  /\ merkleTree # NoTree
  /\ \E m \in 1..(Len(merkleTree.values) - 1) :
       LET previous == StandardMerkleTreeOf(SubSeq(merkleTree.values, 1, m),
                                            merkleTree.leafEncoding)
       IN  /\ \E i \in 1..m : verify.leaf = previous.values[i]
           /\ verify.proof = TreeGetProof(previous, verify.leaf)

\* C12: after addLeaves, with the new root anchored and the time window
\* satisfied, verifyProof of a leaf with its proof from a previous generation,
\* made against the new root hash, returns merkle_proof_invalid.
C12_StaleProofInvalid ==
  (/\ BlockResolved
   /\ WindowSatisfied
   /\ verify.rootHash = rootHash
   /\ verify.leafEncoding = merkleTree.leafEncoding
   /\ StaleProof)
  => verify.outcome = Result(FALSE, MERKLE_PROOF_INVALID)

\* the instance anchored the old root, added leaves and anchored the new root
C12_Witness ==
  /\ BlockResolved
  /\ WindowSatisfied
  /\ verify.rootHash = rootHash
  /\ verify.leafEncoding = merkleTree.leafEncoding
  /\ StaleProof
  /\ Len(chain) = 2
  /\ chain[1].sender = "signer"
  /\ chain[1].event.key # rootHash
  /\ chain[2].sender = "signer"
  /\ chain[2].event.key = rootHash
  /\ verify.outcome = Result(FALSE, MERKLE_PROOF_INVALID)

\* C13: addLeaves on an instance without a tree (constructed from a literal
\* root hash) fails with CommitmentError and leaves the root hash as it was,
\* and no tree is created.
C13_AddLeavesNeedsTree ==
  [][(/\ call.pc = "idle"
      /\ call'.op = "addLeaves"
      /\ merkleTree = NoTree)
     => /\ call'.outcome = Raised(ErrAddLeaves)
        /\ rootHash' = rootHash
        /\ merkleTree' = NoTree
    ]_vars

\* addLeaves failed on an instance holding an anchored literal root hash
C13_Witness ==
  /\ call.op = "addLeaves"
  /\ call.outcome = Raised(ErrAddLeaves)
  /\ merkleTree = NoTree
  /\ ~NoRootHash(rootHash)
  /\ chain # <<>>
  /\ chain[Len(chain)].event.key = rootHash

\* The instance was constructed with a literal root hash, the empty string
\* included: the field is set and there is no tree (addLeaves cannot give one).
RootHashOnly ==
  /\ Constructed
  /\ merkleTree = NoTree
  /\ rootHash # Undefined

\* getMerkleProof and getAllMerkleProofs fail with their 'no merkle tree
\* available' error and return nothing.
ProofsUnavailable ==
  /\ call.op = "getMerkleProof" => call.outcome = Raised(ErrNoTreeProof)
  /\ call.op = "getAllMerkleProofs" => call.outcome = Raised(ErrNoTreeProofs)
  /\ call.op \in {"getMerkleProof", "getAllMerkleProofs"} =>
       call.merkleProof = NoMerkleProof /\ call.merkleProofs = <<>>

\* getRootHash returns the hash, anchorRootHash issues its write for it (and
\* returns the transaction unless the write is rejected), verifyProof issues
\* its event query for it.
RootHashUsable ==
  /\ call.op = "getRootHash" =>
       call.outcome = Returned /\ call.rootHash = rootHash
  /\ anchor.pc # "idle" =>
       /\ anchor.outcome.error # ErrNoRootHash
       /\ anchor.request.key = rootHash
       /\ (signer /\ anchor.pc = "done" /\ anchor.rejection = NoRejection)
            => anchor.outcome = Result(TRUE, "")
  /\ verify.pc # "idle" =>
       /\ verify.outcome.error # ErrNoRootHash
       /\ verify.queries = 1
       /\ verify.rootHash = rootHash

\* C14 as stated: on an instance constructed with only {rootHash}, whatever
\* the string, getMerkleProof and getAllMerkleProofs fail with the 'no merkle
\* tree available' error for every leaf and in every state of its life, while
\* getRootHash, anchorRootHash and verifyProof remain usable.
C14_RootHashOnlyAnyLiteral ==
  RootHashOnly => ProofsUnavailable /\ RootHashUsable

\* C14 amended: the proof operations fail for every literal; getRootHash,
\* anchorRootHash and verifyProof are usable when the literal is not the
\* empty string.
C14_RootHashOnlyMode ==
  RootHashOnly =>
    /\ ProofsUnavailable
    /\ rootHash # EmptyString => RootHashUsable

\* getMerkleProof fails after the instance has anchored its root hash
C14_Witness ==
  /\ RootHashOnly
  /\ rootHash # EmptyString
  /\ chain # <<>>
  /\ chain[Len(chain)].sender = "signer"
  /\ chain[Len(chain)].event.key = rootHash
  /\ call.op = "getMerkleProof"
  /\ call.outcome = Raised(ErrNoTreeProof)

\* What a getRootHash call gives on an instance with a root hash: the tree's
\* root when there is a tree, the literal of the construction otherwise.
CurrentRootReturned ==
  /\ call.outcome = Returned
  /\ call.rootHash = rootHash
  /\ merkleTree # NoTree => call.rootHash = TreeRoot(merkleTree)

\* C15 as stated: getRootHash returns the current root hash, the tree's root
\* or the supplied literal, and fails with 'no root hash available' exactly
\* when neither a tree nor a literal root hash was ever set.
C15_GetRootHashAnyLiteral ==
  call.op = "getRootHash" =>
    IF merkleTree = NoTree /\ rootHash = Undefined
    THEN call.outcome = Raised(ErrNoRootHash)
    ELSE CurrentRootReturned

\* C15 amended: it fails with 'no root hash available' exactly when neither a
\* tree nor a literal was set or the literal set is the empty string.
C15_GetRootHash ==
  call.op = "getRootHash" =>
    IF merkleTree = NoTree /\ (rootHash = Undefined \/ rootHash = EmptyString)
    THEN call.outcome = Raised(ErrNoRootHash) /\ call.rootHash = Undefined
    ELSE CurrentRootReturned

\* the root of a tree that addLeaves has rebuilt is returned
C15_Witness ==
  /\ call.op = "getRootHash"
  /\ call.outcome = Returned
  /\ merkleTree # NoTree
  /\ call.rootHash = TreeRoot(merkleTree)
  /\ chain # <<>>
  /\ chain[1].sender = "signer"
  /\ chain[1].event.key # rootHash

\* C16: when the registry write is rejected, whatever the cause, anchorRootHash
\* fails with the anchoring error whose message ends with the cause's message
\* (the text of a cause that is no Error); it returns no transaction and
\* nothing is submitted.
C16_AnchorFailureWrapped ==
  [][(anchor.rejection = NoRejection /\ anchor'.rejection # NoRejection) =>
       LET cause == anchor'.rejection
       IN  /\ anchor'.pc = "done"
           /\ anchor'.outcome.kind = "error"
           /\ anchor'.outcome.error = ErrAnchor
           /\ anchor'.outcome.detail = IF cause.isError THEN cause.message ELSE cause.text
           /\ anchor'.outcome.detail # ""
           /\ mempool' = mempool
           /\ chain' = chain
    ]_vars

\* a write of an instance with a signer is rejected for insufficient funds
C16_Witness ==
  /\ signer
  /\ anchor.pc = "done"
  /\ anchor.writes = 1
  /\ anchor.rejection.message = "insufficient funds"
  /\ anchor.outcome = RaisedWith(ErrAnchor, "insufficient funds")
  /\ mempool = <<>>

\* C17 as stated: a verifyProof call without maxTimeDifference applies a
\* tolerance of 2592000 (30 days) in the time window check: it reports
\* root_hash_expired exactly when the difference exceeds 2592000.
C17_DefaultTolerance ==
  (BlockResolved /\ ~verify.toleranceGiven) =>
    ((verify.outcome = Result(FALSE, ROOT_HASH_EXPIRED))
       <=> (WindowDifference > ThirtyDays))

\* The block lookup of the settled invocation was answered with no block or
\* with a block that carries no timestamp.
TimestampUnresolved ==
  /\ verify.pc = "done"
  /\ verify.lookups = 1
  /\ verify.outcome # Raised(ErrExternal)
  /\ verify.block.isNull \/ ~verify.block.hasTimestamp

\* C18: when the block of the latest confirmed event resolves to no timestamp,
\* verifyProof raises 'Failed to get block timestamp for event transaction'
\* with that event's transaction hash, returns no {verified:false} result and
\* does not run the Merkle verification.
C18_UnresolvedTimestampRaises ==
  TimestampUnresolved =>
    LET latest == verify.events[Len(verify.events)]
    IN  /\ latest.value = CONFIRMATION_VALUE
        /\ latest = chain[latest.blockNumber].event
        /\ verify.outcome.kind = "error"
        /\ verify.outcome.error = ErrBlockTimestamp
        /\ verify.outcome.detail = latest.transactionHash
        /\ verify.verifications = 0

\* a valid leaf and proof, the anchor in the second block, no timestamp
C18_Witness ==
  /\ TimestampUnresolved
  /\ ~verify.block.isNull
  /\ LeafWithItsProof
  /\ verify.toleranceGiven
  /\ Len(verify.events) = 2
  /\ verify.outcome = RaisedWith(ErrBlockTimestamp, chain[2].event.transactionHash)

\* C19 as stated: getAllMerkleProofs returns exactly one {leaf, proof} entry
\* per committed leaf, in insertion order: as many entries as the current tree
\* has leaves, the i-th being the i-th leaf with its proof.
C19_OneEntryPerLeaf ==
  (call.op = "getAllMerkleProofs" /\ merkleTree # NoTree) =>
    /\ call.outcome = Returned
    /\ Len(call.merkleProofs) = Len(merkleTree.values)
    /\ \A i \in 1..Len(call.merkleProofs) :
         /\ call.merkleProofs[i].leaf = merkleTree.values[i]
         /\ call.merkleProofs[i].proof = TreeGetProof(merkleTree, merkleTree.values[i])

\* A leaf of the current tree, compared field by field.
Committed(leaf) ==
  \E i \in 1..Len(merkleTree.values) : merkleTree.values[i] = leaf

\* C20: on an instance with a tree, getMerkleProof(leaf) returns {leaf, proof}
\* with the leaf as supplied and a proof that verifies against the root hash
\* when the leaf is in the current tree; otherwise it fails with the tree
\* library's 'Leaf is not in tree' error, unchanged, and returns no proof.
C20_GetMerkleProof ==
  (call.op = "getMerkleProof" /\ merkleTree # NoTree) =>
    IF Committed(call.leaf)
    THEN /\ call.outcome = Returned
         /\ call.merkleProof.leaf = call.leaf
         /\ StandardMerkleTreeVerify(rootHash, merkleTree.leafEncoding,
                                     call.merkleProof.leaf, call.merkleProof.proof)
    ELSE /\ call.outcome = Raised(ErrLeafNotInTree)
         /\ call.merkleProof = NoMerkleProof

\* data2 asked of a tree that holds data1 only
C20_Witness ==
  /\ call.op = "getMerkleProof"
  /\ merkleTree # NoTree
  /\ Len(merkleTree.values) = 1
  /\ call.leaf = LeafOf(2, merkleTree.leafEncoding)
  /\ call.outcome = Raised(ErrLeafNotInTree)

\* ------------------------------------------------------------------ C21
\* The constructor was given leaves the tree library builds a tree from, a
\* root hash, or nothing.
SuppliedUsable ==
  supplied.kind = "leaves" =>
    /\ supplied.leaves # <<>>
    /\ \A i \in 1..Len(supplied.leaves) :
         Len(supplied.leaves[i]) = Arity(supplied.encoding)

\* C21: construction with a signer that exposes no provider fails with the
\* error 'A provider must be available ...' and leaves no instance, so that no
\* operation ever runs and no field is set; construction with a provider, or
\* with a signer that has one, does not fail for the provider and returns an
\* instance whenever the tree options are usable, and that instance's event
\* queries and block lookups go to the provider passed, or to the signer's.
C21_ProviderRequired ==
  /\ (signer /\ provider = "undefined") =>
       /\ thrown = Raised(ErrNoProvider)
       /\ merkleTree = NoTree /\ rootHash = Undefined
       /\ anchor = AnchorIdle /\ verify = VerifyIdle /\ call = CallIdle
       /\ chain = <<>> /\ mempool = <<>>
  /\ provider # "undefined" =>
       /\ thrown.error # ErrNoProvider
       /\ SuppliedUsable => thrown = NoOutcome
       /\ provider = IF signer THEN "signer.provider" ELSE "provider"
  /\ verify.queries = 1 => verify.queryClient = provider
  /\ verify.lookups = 1 => verify.blockClient = provider

\* An instance made from a signer has read the events and the block through
\* the signer's provider.
C21_Witness ==
  /\ thrown = NoOutcome
  /\ signer
  /\ verify.pc = "done"
  /\ verify.queries = 1 /\ verify.queryClient = "signer.provider"
  /\ verify.lookups = 1 /\ verify.blockClient = "signer.provider"

\* ------------------------------------------------------------------ C22
\* The constructor was given leaves of which one has not the fields the
\* encoding names (a malformed leaf, an encoding that does not match).
SuppliedMismatch ==
  /\ supplied.kind = "leaves"
  /\ \E i \in 1..Len(supplied.leaves) :
       Len(supplied.leaves[i]) # Arity(supplied.encoding)

\* C22: when building the tree fails during construction with leaves and an
\* encoding (a leaf that does not match the encoding, or no leaf at all), the
\* constructor fails with 'Failed to create merkle tree: ' followed by the
\* message of the tree library's error, and neither the tree nor the root
\* hash is set; nothing runs on the object afterwards.
C22_TreeFailureWrapped ==
  (provider # "undefined" /\ ~SuppliedUsable) =>
    /\ thrown.kind = "error"
    /\ thrown.error = ErrCreateTree
    /\ thrown.detail = IF SuppliedMismatch THEN ErrLengthMismatch ELSE ErrNoLeaves
    /\ merkleTree = NoTree
    /\ rootHash = Undefined
    /\ anchor = AnchorIdle /\ verify = VerifyIdle /\ call = CallIdle

\* The constructor threw for leaves of one field under an encoding of two.
C22_Witness ==
  /\ provider = "provider"
  /\ supplied.kind = "leaves"
  /\ supplied.encoding = "address,uint256"
  /\ supplied.leaves = Prefix(MaxLeaves, DefaultLeafEncoding)
  /\ thrown = RaisedWith(ErrCreateTree, ErrLengthMismatch)
  /\ merkleTree = NoTree

\* ------------------------------------------------------------------ C23
\* The instance was constructed with leaves, and its tree is still the one
\* the constructor built: no leaf has been added.
TreeAsConstructed ==
  /\ thrown = NoOutcome
  /\ supplied.kind = "leaves"
  /\ Len(merkleTree.values) = Len(supplied.leaves)

\* C23, as the specification states it: the tree is built over the supplied
\* leaves in the supplied order, each leaf value x wrapped as the singleton
\* tuple [x], with the supplied encoding.
C23_LeavesWrapped ==
  TreeAsConstructed =>
    /\ merkleTree.values = [i \in 1..Len(supplied.leaves) |-> <<supplied.leaves[i]>>]
    /\ merkleTree.leafEncoding = supplied.encoding

\* C23, amended: the tree is built over the supplied leaves in the supplied
\* order exactly as they are given, each leaf being the tuple of its fields
\* already, with the supplied encoding; its root becomes the root hash.
C23_LeavesAsGiven ==
  TreeAsConstructed =>
    /\ merkleTree.values = supplied.leaves
    /\ merkleTree.leafEncoding = supplied.encoding
    /\ \A i \in 1..Len(supplied.leaves) :
         \E k \in 1..Len(merkleTree.tree) :
           merkleTree.tree[k] = <<"leaf", supplied.leaves[i], supplied.encoding>>
    /\ rootHash = merkleTree.tree[1]

\* An instance constructed with the largest list of two-field leaves.
C23_Witness ==
  /\ TreeAsConstructed
  /\ supplied.encoding = "address,uint256"
  /\ Len(supplied.leaves) = MaxLeaves
  /\ merkleTree.values[1] # merkleTree.values[MaxLeaves]
  /\ Len(merkleTree.values[1]) = 2

\* ------------------------------------------------------------------ C24
\* Both instances were constructed from the same ordered leaves and the same
\* encoding, and each has been asked for its root hash.
SameCommitmentInput ==
  /\ instances[1].pc = "constructed" /\ instances[2].pc = "constructed"
  /\ instances[1].supplied.kind = "leaves" /\ instances[2].supplied.kind = "leaves"
  /\ instances[1].supplied.leaves = instances[2].supplied.leaves
  /\ instances[1].supplied.encoding = instances[2].supplied.encoding
  /\ instances[1].report # NoReport /\ instances[2].report # NoReport

MutatedDuringAnchor ==
  /\ anchor.pc = "done"
  /\ anchor.writes = 1
  /\ rootHash # anchor.request.key

MutatedDuringVerify ==
  /\ verify.pc = "done"
  /\ verify.verifications = 1
  /\ rootHash # verify.rootHash

\* C26: each anchorRootHash or verifyProof invocation reads the root hash only
\* before its first suspension.  The step that starts an invocation takes the
\* key of the write, the key of the event query and the root of the Merkle
\* verification from the root hash of that moment; no later step of the
\* invocation changes them, and the root the Merkle verification is given is
\* the one the event query was made for.
C26_ReadsBeforeSuspension ==
  [][/\ (anchor.pc = "idle" /\ anchor'.pc # "idle" /\ anchor'.request # NoRequest) =>
          anchor'.request.key = rootHash
     /\ (anchor.pc = "awaitSetHint" /\ anchor'.pc # "idle") =>
          anchor'.request = anchor.request
     /\ (verify.pc = "idle" /\ verify'.queries = 1) =>
          /\ verify'.rootHash = rootHash
          /\ verify'.filter.key = rootHash
     /\ (verify.pc \in {"awaitEvents", "awaitBlock"} /\ verify'.pc # "idle") =>
          /\ verify'.rootHash = verify.rootHash
          /\ verify'.filter = verify.filter
     /\ verify'.verifications = 1 =>
          /\ verify'.verifiedAgainst = verify'.rootHash
          /\ verify'.verifiedAgainst = verify'.filter.key]_vars

\* A verifyProof verified the proof against the root hash it had read at its
\* call, after the root hash had changed while it was suspended.
C26_Witness ==
  /\ MutatedDuringVerify
  /\ verify.verifiedAgainst = verify.rootHash
  /\ verify.filter.key = verify.rootHash
  /\ verify.outcome = Result(TRUE, "")

\* ------------------------------------------------------------------ C27
\* The event query of the latest verifyProof was answered with several events.
SeveralEvents ==
  /\ verify.pc \in {"awaitBlock", "done"}
  /\ verify.queries = 1
  /\ Len(verify.events) >= 2

\* The time window of the call, measured against the timestamp of a block.
WindowAgainst(blockNumber) ==
  /\ verify.toleranceGiven
  /\ AbsDiff(chain[blockNumber].timestamp, GetTime(verify.leafCreationTime))
       <= verify.maxTimeDifference

\* C27: when several events match (namespace, list, root hash), verifyProof
\* takes the last event of the query result for the confirmation check and
\* for the block it looks up; with a root anchored again, the time window is
\* measured against the block of the later anchor, not of the first.
C27_LastEventForValueAndTime ==
  SeveralEvents =>
    LET last == verify.events[Len(verify.events)]
    IN  /\ verify.latestEvent = last
        /\ verify.lookups = 1 <=> last.value = CONFIRMATION_VALUE
        /\ last.value # CONFIRMATION_VALUE =>
             verify.outcome = Result(FALSE, ROOT_HASH_NOT_FOUND)
        /\ verify.lookups = 1 => verify.blockNumber = last.blockNumber
        /\ BlockResolved =>
             /\ verify.block.timestamp = chain[last.blockNumber].timestamp
             /\ verify.outcome = Result(FALSE, ROOT_HASH_EXPIRED)
                  <=> ~WindowAgainst(last.blockNumber)

\* The root was anchored twice; the window holds against the later anchor's
\* block and not against the first one's, and the call was not found expired.
C27_Witness ==
  /\ SeveralEvents
  /\ BlockResolved
  /\ verify.events[1].value = CONFIRMATION_VALUE
  /\ verify.events[Len(verify.events)].value = CONFIRMATION_VALUE
  /\ ~WindowAgainst(verify.events[1].blockNumber)
  /\ WindowAgainst(verify.events[Len(verify.events)].blockNumber)
  /\ verify.outcome = Result(TRUE, "")

\* ------------------------------------------------------------------ C28
\* C28: after construction the root hash and the tree change in addLeaves
\* only.  A step of getRootHash, getMerkleProof, getAllMerkleProofs,
\* anchorRootHash or verifyProof, whether it returns a value, returns a
\* failure reason or raises an error, leaves both as they are, and so does
\* every step of the chain.
C28_TreeAndRootFrame ==
  [][/\ (merkleTree' # merkleTree \/ rootHash' # rootHash) =>
          /\ call'.op = "addLeaves"
          /\ call'.outcome.kind = "returned"
          /\ anchor' = anchor /\ verify' = verify
     /\ (anchor' # anchor \/ verify' # verify \/ chain' # chain \/ mempool' # mempool) =>
          (merkleTree' = merkleTree /\ rootHash' = rootHash)
     /\ (call' # call /\ call'.op \in {"getRootHash", "getMerkleProof",
                                        "getAllMerkleProofs"}) =>
          (merkleTree' = merkleTree /\ rootHash' = rootHash)]_vars

\* On an instance whose tree and root hash are those of its construction, a
\* root hash was anchored and a verifyProof has raised an error.
C28_Witness ==
  /\ TreeAsConstructed
  /\ merkleTree.values = supplied.leaves
  /\ rootHash = merkleTree.tree[1]
  /\ chain # <<>>
  /\ chain[Len(chain)].event.key = rootHash
  /\ verify.pc = "done"
  /\ verify.outcome.kind = "error"
  /\ verify.lookups = 1

\* ------------------------------------------------------------------ C29
\* A registry write or an event filter is made under the instance's
\* namespace and list.
UnderContractOptions(r) ==
  /\ r.namespace = contractOptions.namespace
  /\ r.list = contractOptions.list

\* C29: the contract options are those the constructor was given and no
\* operation changes them: every write of anchorRootHash, in flight,
\* submitted or mined, and every event query of verifyProof carries the
\* instance's namespace and list, so that a query for a root finds every
\* event the instance's own writes of that root have emitted.
C29_ContractOptionsFixed ==
  /\ contractOptions = [namespace |-> "ns1", list |-> "list1"]
  /\ anchor.request # NoRequest => UnderContractOptions(anchor.request)
  /\ \A k \in 1..Len(mempool) : UnderContractOptions(mempool[k])
  /\ \A i \in 1..Len(chain) :
       chain[i].sender = "signer" => UnderContractOptions(chain[i].event)
  /\ verify.queries = 1 =>
       /\ UnderContractOptions(verify.filter)
       /\ \A i \in 1..Len(chain) :
            (chain[i].sender = "signer" /\ chain[i].event.key = verify.filter.key) =>
              /\ chain[i].event.namespace = verify.filter.namespace
              /\ chain[i].event.list = verify.filter.list

\* A verifyProof found the event of the instance's own anchor of the root.
C29_Witness ==
  /\ verify.pc = "done"
  /\ verify.queries = 1
  /\ verify.events # <<>>
  /\ chain[verify.latestEvent.blockNumber].sender = "signer"
  /\ UnderContractOptions(verify.latestEvent)
  /\ verify.latestEvent.key = verify.filter.key
  /\ anchor = AnchorIdle

\* ------------------------------------------------------------------ C30
\* C30: no operation sends an external call again.  An anchorRootHash that
\* reaches the registry issues one write, a verifyProof one event query and,
\* for a confirmed latest event, one block lookup; a rejected write, a
\* rejected query, a rejected or unusable block lookup ends the invocation
\* with an error at once, with no further call made.
C30_NoRetries ==
  /\ anchor.writes <= 1 /\ verify.queries <= 1 /\ verify.lookups <= 1
  /\ anchor.pc = "awaitSetHint" => (anchor.writes = 1 /\ anchor.rejection = NoRejection)
  /\ (anchor.pc = "done" /\ anchor.outcome.kind = "result") =>
       (anchor.writes = 1 /\ anchor.rejection = NoRejection)
  /\ anchor.rejection # NoRejection =>
       /\ anchor.pc = "done"
       /\ anchor.outcome.kind = "error"
       /\ anchor.outcome.error = ErrAnchor
  /\ verify.pc = "awaitEvents" => (verify.queries = 1 /\ verify.lookups = 0)
  /\ verify.pc = "awaitBlock" => (verify.queries = 1 /\ verify.lookups = 1)
  /\ (verify.pc = "done" /\ verify.outcome.kind = "error"
        /\ verify.outcome.error # ErrNoRootHash) =>
       /\ verify.queries = 1
       /\ verify.verifications = 0
       /\ verify.outcome.error = ErrBlockTimestamp => verify.lookups = 1

\* A setHint was rejected: the one write of the invocation failed and the
\* invocation ended with the error, nothing submitted.
C30_Witness ==
  /\ anchor.pc = "done"
  /\ anchor.writes = 1
  /\ anchor.rejection \in Rejections
  /\ anchor.outcome.kind = "error"
  /\ mempool = <<>>

\* ------------------------------------------------------------------ C31
\* The blocks that hold a write of this instance's anchorRootHash for a key.
AnchorsOf(key) ==
  {i \in 1..Len(chain) : chain[i].sender = "signer" /\ chain[i].event.key = key}

\* No other client's write of the binding follows block i.
NotOverwrittenAfter(i, key) ==
  \A j \in MatchingBlocks(contractOptions.namespace, contractOptions.list, key) :
    j > i => chain[j].sender = "signer"

\* C31: anchorRootHash called twice for the same root hash leaves the
\* registry's binding of (namespace, list, root hash) at the confirmation
\* value, as it was after the first call, and each call has a transaction and
\* a HintValueChanged event of its own.
C31_AnchorTwice ==
  \A i \in 1..Len(chain), j \in 1..Len(chain) :
    (i < j /\ chain[i].sender = "signer" /\ chain[j].sender = "signer"
       /\ chain[i].event.key = chain[j].event.key) =>
      LET key == chain[i].event.key
      IN  /\ chain[i].event.value = CONFIRMATION_VALUE
          /\ chain[j].event.value = CONFIRMATION_VALUE
          /\ GetHint(SubSeq(chain, 1, i), contractOptions.namespace,
                     contractOptions.list, key) = CONFIRMATION_VALUE
          /\ NotOverwrittenAfter(j, key) =>
               GetHint(chain, contractOptions.namespace, contractOptions.list, key)
                 = CONFIRMATION_VALUE
          /\ chain[i].event.transactionHash # chain[j].event.transactionHash
          /\ chain[i].event.blockNumber # chain[j].event.blockNumber
          /\ Len(QueryFilter(chain, [namespace |-> contractOptions.namespace,
                                     list |-> contractOptions.list, key |-> key])) >= 2

\* The root hash was anchored twice and both writes are recorded.
C31_Witness ==
  /\ ~NoRootHash(rootHash)
  /\ Cardinality(AnchorsOf(rootHash)) = 2
  /\ GetHint(chain, contractOptions.namespace, contractOptions.list, rootHash)
       = CONFIRMATION_VALUE
  /\ anchor.pc = "idle"

\* ------------------------------------------------------------------ C32
\* A write of the root hash the latest verifyProof read is submitted and not
\* mined: anchorRootHash has returned, the registry event does not exist.
AnchorPending ==
  /\ \E k \in 1..Len(mempool) :
       /\ mempool[k].key = verify.rootHash
       /\ mempool[k].value = CONFIRMATION_VALUE
  /\ MatchingBlocks(contractOptions.namespace, contractOptions.list,
                    verify.rootHash) = {}

\* C32: anchorRootHash returns once its write is submitted, without waiting
\* for it to be mined.  A verifyProof whose event query is answered while the
\* write is pending returns root_hash_not_found, whatever the leaf, the proof
\* and the tolerance, and verifyProof returns {verified:true} only when an
\* event with the confirmation value is recorded for the root hash.
C32_AnchorNotAwaited ==
  /\ (anchor.pc = "done" /\ anchor.outcome.kind = "result") =>
       /\ mempool # <<>>
       /\ mempool[Len(mempool)] = anchor.request
  /\ (QueryAnswered /\ AnchorPending) =>
       verify.outcome = Result(FALSE, ROOT_HASH_NOT_FOUND)
  /\ (verify.pc = "done" /\ verify.outcome.verified) =>
       \E i \in MatchingBlocks(contractOptions.namespace, contractOptions.list,
                               verify.rootHash) :
         chain[i].event.value = CONFIRMATION_VALUE

\* After anchorRootHash had returned and before its write was mined, a leaf
\* presented with its proof and a tolerance was answered root_hash_not_found.
C32_Witness ==
  /\ QueryAnswered
  /\ AnchorPending
  /\ anchor.pc = "idle"
  /\ LeafWithItsProof
  /\ verify.toleranceGiven
  /\ verify.outcome = Result(FALSE, ROOT_HASH_NOT_FOUND)

\* ------------------------------------------------------------------ C33
\* The root hash of the tree the constructor built.
FirstRoot == StandardMerkleTreeOf(supplied.leaves, supplied.encoding).tree[1]

\* Leaves have been added since construction, and the latest verifyProof was
\* called for the root hash of the new tree generation.
VerifiedNewGeneration ==
  /\ thrown = NoOutcome
  /\ supplied.kind = "leaves"
  /\ Len(merkleTree.values) > Len(supplied.leaves)
  /\ QueryAnswered
  /\ verify.rootHash = rootHash

\* The registry holds no event with the confirmation value for the root hash
\* the latest verifyProof read.
NewRootNotAnchored ==
  \A i \in MatchingBlocks(contractOptions.namespace, contractOptions.list,
                          verify.rootHash) :
    chain[i].event.value # CONFIRMATION_VALUE

\* C33: an anchor does not carry over to the next tree generation.  After
\* addLeaves has produced a new root hash, verifyProof returns
\* root_hash_not_found for every leaf and proof as long as no anchor of the
\* new root hash is recorded, also while the previous root hash is anchored.
C33_AnchorPerGeneration ==
  (VerifiedNewGeneration /\ NewRootNotAnchored) =>
    verify.outcome = Result(FALSE, ROOT_HASH_NOT_FOUND)

\* The first root hash is anchored by the instance, leaves were added, and a
\* leaf of the new tree presented with its new proof was not found.
C33_Witness ==
  /\ VerifiedNewGeneration
  /\ NewRootNotAnchored
  /\ \E i \in 1..Len(chain) :
       /\ chain[i].sender = "signer"
       /\ chain[i].event.key = FirstRoot
       /\ chain[i].event.value = CONFIRMATION_VALUE
  /\ FirstRoot # rootHash
  /\ LeafWithItsProof
  /\ verify.toleranceGiven
  /\ verify.outcome = Result(FALSE, ROOT_HASH_NOT_FOUND)

\* ------------------------------------------------------------------ C34
\* C34: in every state of an instance, a loaded tree has the current root
\* hash for its root; an instance constructed from a literal root hash or
\* without options has no tree; an instance without a root hash has no tree.
C34_InstanceInvariant ==
  thrown = NoOutcome =>
    /\ merkleTree # NoTree =>
         /\ merkleTree.tree # <<>>
         /\ rootHash = merkleTree.tree[1]
    /\ supplied.kind \in {"rootHash", "absent"} => merkleTree = NoTree
    /\ (rootHash = Undefined \/ rootHash = EmptyString) => merkleTree = NoTree

\* Leaves were added to the tree of the constructor and the instance was
\* used since: the root hash is the root of the tree now loaded.
C34_Witness ==
  /\ thrown = NoOutcome
  /\ supplied.kind = "leaves"
  /\ Len(merkleTree.values) > Len(supplied.leaves)
  /\ rootHash = merkleTree.tree[1]
  /\ rootHash # FirstRoot
  /\ chain # <<>>
  /\ verify.pc = "done"

\* ------------------------------------------------------------------ C35
\* An event of the registry is one for the instance's namespace and list and
\* for the root hash the latest verifyProof read.
ForInstanceAndRoot(e) ==
  /\ e.namespace = contractOptions.namespace
  /\ e.list = contractOptions.list
  /\ e.key = verify.rootHash

\* Every anchor the registry has recorded is one under another namespace,
\* another list or another root hash.
OnlyForeignAnchors ==
  \A i \in 1..Len(chain) :
    chain[i].event.value = CONFIRMATION_VALUE => ~ForInstanceAndRoot(chain[i].event)

\* C35: verifyProof takes into account those events only whose namespace,
\* list and key are the instance's namespace and list and the root hash it
\* read; an anchor recorded under another namespace, another list or another
\* root hash never makes it return {verified:true}.
C35_OnlyOwnEvents ==
  /\ (verify.queries = 1 /\ verify.pc \in {"awaitBlock", "done"}) =>
       \A k \in 1..Len(verify.events) : ForInstanceAndRoot(verify.events[k])
  /\ (verify.pc = "done" /\ OnlyForeignAnchors) => ~verify.outcome.verified

\* The root hash is anchored under another namespace or another list only; a
\* leaf presented with its proof and a tolerance was not verified.
C35_Witness ==
  /\ QueryAnswered
  /\ OnlyForeignAnchors
  /\ \E i \in 1..Len(chain) :
       /\ chain[i].event.key = verify.rootHash
       /\ chain[i].event.value = CONFIRMATION_VALUE
  /\ LeafWithItsProof
  /\ verify.toleranceGiven
  /\ verify.outcome = Result(FALSE, ROOT_HASH_NOT_FOUND)

\* ------------------------------------------------------------------ C36
\* The instance was constructed with a provider and no signer.
ReadOnlyInstance == thrown = NoOutcome /\ ~signer

\* C36: anchorRootHash on an instance constructed with a provider and no
\* signer never changes the registry: no write of the instance is in flight,
\* submitted or mined, and the call ends with the anchoring error (or with
\* the error for a missing root hash).  verifyProof on the instance works as
\* on any other: with an anchor recorded, the window satisfied and a proof
\* that folds to the root hash it returns {verified:true}.
C36_ReadOnlyAnchorFails ==
  ReadOnlyInstance =>
    /\ anchor.pc # "awaitSetHint"
    /\ anchor.writes = 0
    /\ mempool = <<>>
    /\ \A i \in 1..Len(chain) : chain[i].sender # "signer"
    /\ anchor.pc = "done" =>
         /\ anchor.outcome.kind = "error"
         /\ anchor.outcome.error \in {ErrAnchor, ErrNoRootHash}
         /\ anchor.request # NoRequest => anchor.outcome.error = ErrAnchor
    /\ (BlockResolved /\ WindowSatisfied /\ MerkleVerified) =>
         verify.outcome = Result(TRUE, "")

\* A read-only instance with a root hash, whose root another client has
\* anchored, was asked to anchor and failed with the anchoring error.
C36_Witness ==
  /\ ReadOnlyInstance
  /\ anchor.pc = "done"
  /\ anchor.request.key = rootHash
  /\ anchor.outcome.kind = "error"
  /\ anchor.outcome.error = ErrAnchor
  /\ chain # <<>>
  /\ mempool = <<>>

\* ------------------------------------------------------------------ C37
\* The outcome of a settled verifyProof is of exactly one of the three kinds.
OneOutcome(outcome) ==
  \/ /\ outcome.kind = "result"
     /\ outcome.verified
     /\ outcome.reason = ""
     /\ outcome.error = ""
  \/ /\ outcome.kind = "result"
     /\ ~outcome.verified
     /\ outcome.reason \in {ROOT_HASH_NOT_FOUND, ROOT_HASH_EXPIRED, MERKLE_PROOF_INVALID}
     /\ outcome.error = ""
  \/ /\ outcome.kind = "error"
     /\ outcome.error # ""
     /\ ~outcome.verified
     /\ outcome.reason = ""

\* C37: a verifyProof invocation whose external reads are each answered in
\* the end terminates, with exactly one outcome: {verified:true} without a
\* reason, {verified:false} with one of the three reasons, or an error.  It
\* has no outcome before it settles and its outcome does not change after.
C37_VerifyTerminates ==
  /\ [](verify.pc = "done" => OneOutcome(verify.outcome))
  /\ [](verify.pc # "done" => verify.outcome = NoOutcome)
  /\ [][(verify.pc = "done" /\ verify'.pc = "done") => verify' = verify]_vars
  /\ (verify.pc \in {"awaitEvents", "awaitBlock"}) ~> (verify.pc = "done")

\* A verifyProof settled after both reads with a failure and its reason.
C37_Witness ==
  /\ verify.pc = "done"
  /\ verify.queries = 1
  /\ verify.lookups = 1
  /\ verify.verifications = 1
  /\ verify.outcome = Result(FALSE, MERKLE_PROOF_INVALID)

\* ------------------------------------------------------------------ C38
\* C38: when the proof lookup of some indexed leaf returns nothing,
\* getAllMerkleProofs fails with 'Failed to get proof for leaf at index i',
\* i being the first such index in the order of the entries, and returns
\* no list of proofs, not even of the leaves before i.
C38_MissingProofFails ==
  (call.op = "getAllMerkleProofs" /\ call.noProofAt # {}) =>
    LET i == CHOOSE i \in call.noProofAt : \A j \in call.noProofAt : i <= j
    IN  /\ call.outcome.kind = "error"
        /\ call.outcome.error = ErrNoProofForLeaf(i)
        /\ call.merkleProofs = <<>>

\* The second of two leaves has no proof: the call fails at index 1 although
\* the first leaf has a proof.
C38_Witness ==
  /\ call.pc = "done"
  /\ call.op = "getAllMerkleProofs"
  /\ merkleTree # NoTree
  /\ Len(merkleTree.values) = 2
  /\ call.noProofAt = {1}
  /\ call.outcome.error = "Failed to get proof for leaf at index 1"

\* ------------------------------------------------------------------ C39
\* C39 as stated: verifyProof raises 'Failed to get block timestamp' only
\* when getBlock resolved to no block or to a block without a timestamp; a
\* block that carries a numeric timestamp, the value 0 included, has its
\* timestamp used for the time window check, which ends in a result.
C39_NumericTimestampUsed ==
  /\ (verify.pc = "done" /\ verify.outcome.error = ErrBlockTimestamp) =>
       (verify.block.isNull \/ ~verify.block.hasTimestamp)
  /\ (verify.pc = "done" /\ verify.lookups = 1 /\ verify.block.hasTimestamp) =>
       verify.outcome.kind = "result"
====
